---- MODULE Spec2Model ----
(***************************************************************************)
(* A model of the caching and URL-construction core of snapkit-js          *)
(* (packages/core): the generic LRUCache, the UrlBuilderFactory builder    *)
(* cache, the ImageEngineCache engine cache and SnapkitUrlBuilder.         *)
(*                                                                         *)
(* A JavaScript string is modelled as the sequence of its characters, a    *)
(* JavaScript Map as the sequence of its [key, value] entries in insertion *)
(* order, which is the order Map iteration uses.                           *)
(***************************************************************************)
EXTENDS Integers, Sequences, FiniteSets, TLC

VARIABLES
    cache,      \* LRUCache.cache: Map<K, V>
    maxSize,    \* LRUCache.maxSize
    lruCall,    \* the last LRUCache call: [op, key, value, ret]
    touch,      \* observer: key -> time of its most recent touch (0: none)
    clock,      \* observer: number of touches (set, get hit) so far
    instances,  \* UrlBuilderFactory.instances: Map<string, SnapkitUrlBuilder>
    built,      \* number of SnapkitUrlBuilder objects constructed so far
    facCall,    \* the last UrlBuilderFactory call: [op, config, outcome, builder, constructed]
    handed,     \* observer: <<config, builder>> returned since the last clearCache
    madeFor,    \* observer: <<config, builder>> constructed since the last clearCache
    before,     \* observer: <<config, builder>> returned before the last clearCache
    engines,    \* ImageEngineCache: Map<string, {engine, lastAccess}>
    now,        \* Date.now(), in milliseconds since the module was loaded
    engBuilt,   \* number of SnapkitImageEngine objects constructed so far
    engCall,    \* the last ImageEngineCache call: [op, config, engine, constructed]
    seen,       \* observer: config -> [at, engine, born] of its last getInstance since the last clearCache
    thisBaseUrl, \* this.baseUrl of the SnapkitUrlBuilder under test
    fnCall,     \* the arguments at hand and the last call of a pure function: [op, args, result]
    urlCall     \* the arguments at hand and the last SnapkitUrlBuilder call: [op, src, transforms, result]

lruVars == <<cache, maxSize, lruCall, touch, clock>>

facVars == <<instances, built, facCall, handed, madeFor, before>>

engVars == <<engines, now, engBuilt, engCall, seen>>

urlVars == <<thisBaseUrl, urlCall>>

fnVars == <<fnCall>>

vars == <<cache, maxSize, lruCall, touch, clock,
          instances, built, facCall, handed, madeFor, before,
          engines, now, engBuilt, engCall, seen,
          thisBaseUrl, urlCall, fnCall>>

(***************************************************************************)
(* Bounds of the model                                                     *)
(***************************************************************************)

\* LRUCache capacities explored: 1..MaxCapacity
MaxCapacity == 2

\* LRUCache touches (set calls and get hits) explored per run
MaxOps == 4

\* SnapkitUrlBuilder constructions explored per run of the factory
MaxBuilds == 4

\* Organizations org1..org<MaxFill> requested one after the other
MaxFill == 51

\* Engine configurations requested when the expiry of entries is explored
MaxEngineConfigs == 2

\* Minutes of wall-clock time explored for the expiry of entries
MaxMinutes == 10

\* SnapkitImageEngine constructions explored for the expiry of entries
MaxEngines == 3

\* Engine configurations requested one after the other to fill the cache
MaxEngineFill == 11

\* Of these, the first ones are requested again at will
HotEngineConfigs == 2

\* One-second steps of the clock while the cache is filled
MaxFillTicks == 2

\* Tokens a relative src handed to the URL builder is made of, at most
MaxTokens == 3

\* Properties of an ImageTransforms object handed to the encoder, at most
MaxProperties == 3

\* Tokens a path handed to the validation is made of, at most
MaxValidateTokens == 2

\* Tokens a path handed to the sanitization is made of, at most
MaxSanitizeTokens == 3

\* The highest minor version of iOS a BrowserInfo carries
MaxIosMinor == 5

\* Tokens a user-agent string handed to parseBrowserInfo is made of, at most
MaxUaTokens == 3

\* Base widths handed to generateResponsiveWidths: 1..MaxBaseWidth
MaxBaseWidth == 6

\* Multipliers handed to generateResponsiveWidths, at most
MaxMultipliers == 3

(***************************************************************************)
(* JavaScript values                                                       *)
(***************************************************************************)

\* The value undefined: no string of the model has an element longer than
\* one character, so it differs from every string.
Undefined == <<"undefined-value">>


(***************************************************************************)
(* JavaScript strings                                                      *)
(***************************************************************************)

LowerSeq ==
    << "a", "b", "c", "d", "e", "f", "g", "h", "i", "j", "k", "l", "m",
       "n", "o", "p", "q", "r", "s", "t", "u", "v", "w", "x", "y", "z" >>

UpperSeq ==
    << "A", "B", "C", "D", "E", "F", "G", "H", "I", "J", "K", "L", "M",
       "N", "O", "P", "Q", "R", "S", "T", "U", "V", "W", "X", "Y", "Z" >>

DigitSeq == << "0", "1", "2", "3", "4", "5", "6", "7", "8", "9" >>

Range(s) == { s[i] : i \in DOMAIN s }

LowerLetters == Range(LowerSeq)

UpperLetters == Range(UpperSeq)

Digits == Range(DigitSeq)

\* The characters 0x00, 0x09, 0x0A, 0x0D and 0x7F stand for the class
\* [\x00-\x1F\x7F]; NUL and DEL have no TLA+ escape and are named.
NUL == "NUL"

DEL == "DEL"

ControlChars == { NUL, "\t", "\n", "\r", DEL }

\* \w of a regular expression
WordChars == LowerLetters \cup UpperLetters \cup Digits \cup { "_" }

\* \s of a regular expression, within the characters of the model
SpaceChars == { " ", "\t", "\n", "\r" }

LowerChar(c) ==
    IF c \in UpperLetters
    THEN LowerSeq[CHOOSE i \in DOMAIN UpperSeq : UpperSeq[i] = c]
    ELSE c

\* String.prototype.toLowerCase
ToLowerCase(s) == [i \in DOMAIN s |-> LowerChar(s[i])]

\* p occurs in s at position i
MatchAt(s, i, p) ==
    /\ i >= 1
    /\ i + Len(p) - 1 <= Len(s)
    /\ SubSeq(s, i, i + Len(p) - 1) = p

\* String.prototype.startsWith
StartsWith(s, p) == MatchAt(s, 1, p)

\* String.prototype.includes
Includes(s, p) == \E i \in 1..(Len(s) + 1) : MatchAt(s, i, p)

\* The position of the first c in s, 0 when there is none
IndexOfChar(s, c) ==
    IF c \in Range(s) THEN CHOOSE i \in DOMAIN s : s[i] = c /\ \A j \in 1..(i - 1) : s[j] # c
    ELSE 0

\* The number of occurrences of the character c in s
CountChar(s, c) == Cardinality({ i \in DOMAIN s : s[i] = c })

\* The first position at or after i whose character is outside the class,
\* Len(s) + 1 when the class runs to the end
RunEnd(s, i, class) ==
    IF \E j \in i..Len(s) : s[j] \notin class
    THEN CHOOSE j \in i..Len(s) : s[j] \notin class /\ \A h \in i..(j - 1) : s[h] \in class
    ELSE Len(s) + 1

\* String(value) of a template literal: undefined prints as "undefined"
ToStr(value) == IF value = Undefined THEN <<"u", "n", "d", "e", "f", "i", "n", "e", "d">> ELSE value

\* The decimal digits of a natural number
RECURSIVE Decimal(_)
Decimal(n) ==
    IF n < 10 THEN << DigitSeq[n + 1] >>
    ELSE Append(Decimal(n \div 10), DigitSeq[(n % 10) + 1])


(***************************************************************************)
(* security-utils.ts                                                       *)
(***************************************************************************)

\* s without its leading and trailing spaces (the URL parser strips them)
RECURSIVE TrimSpaces(_)
TrimSpaces(s) ==
    IF s = <<>> THEN s
    ELSE IF Head(s) = " " THEN TrimSpaces(Tail(s))
    ELSE IF s[Len(s)] = " " THEN TrimSpaces(SubSeq(s, 1, Len(s) - 1))
    ELSE s

\* The scheme of a URL string with its ":" in lower case, as the URL parser
\* reads it: a letter, then letters, digits, "+", "-", "." up to the first
\* ":"; <<>> when the string has no scheme (new URL throws).
UrlProtocol(url) ==
    LET t == TrimSpaces(url)
        colon == IndexOfChar(t, ":")
    IN  IF /\ colon >= 2
           /\ t[1] \in LowerLetters \cup UpperLetters
           /\ \A i \in 2..(colon - 1) :
                  t[i] \in LowerLetters \cup UpperLetters \cup Digits \cup { "+", "-", "." }
        THEN ToLowerCase(SubSeq(t, 1, colon))
        ELSE <<>>

\* Characters the URL parser refuses in a host
ForbiddenHostChars ==
    ControlChars \cup { " ", "#", "/", ":", "<", ">", "?", "@", "[", "\\", "]", "^", "|", "%" }

\* The authority of an http(s) URL: what follows the scheme and any run of
\* slashes, up to the first "/", "\", "?" or "#".
UrlAuthority(url) ==
    LET t == TrimSpaces(url)
        start == RunEnd(t, IndexOfChar(t, ":") + 1, { "/", "\\" })
        stop == RunEnd(t, start, Range(t) \ { "/", "\\", "?", "#" })
    IN  SubSeq(t, start, stop - 1)

\* new URL(url) does not throw, for a string whose scheme is http or https:
\* the host is not empty and holds no forbidden character, the port is
\* digits only.
HttpUrlParses(url) ==
    LET auth == UrlAuthority(url)
        ats == { i \in DOMAIN auth : auth[i] = "@" }
        hostport == IF ats = {} THEN auth
                    ELSE SubSeq(auth, (CHOOSE i \in ats : \A j \in ats : j <= i) + 1, Len(auth))
        colon == IndexOfChar(hostport, ":")
        host == IF colon = 0 THEN hostport ELSE SubSeq(hostport, 1, colon - 1)
        port == IF colon = 0 THEN <<>> ELSE SubSeq(hostport, colon + 1, Len(hostport))
    IN  /\ host # <<>>
        /\ Range(host) \cap ForbiddenHostChars = {}
        /\ Range(port) \subseteq Digits

\* /on\w+\s*=/i matches s at position i
OnHandlerAt(s, i) ==
    /\ i + 1 <= Len(s)
    /\ LowerChar(s[i]) = "o"
    /\ LowerChar(s[i + 1]) = "n"
    /\ LET w == RunEnd(s, i + 2, WordChars)
           e == RunEnd(s, w, SpaceChars)
       IN  /\ w > i + 2
           /\ e <= Len(s)
           /\ s[e] = "="

\* /on\w+\s*=/i.test(s)
HasOnHandler(s) == \E i \in DOMAIN s : OnHandlerAt(s, i)

\* /[\x00-\x1F\x7F]/.test(s)
HasControlChar(s) == Range(s) \cap ControlChars # {}

\* isValidUrl
isValidUrl(url) ==
    /\ UrlProtocol(url) \in { <<"h", "t", "t", "p", ":">>, <<"h", "t", "t", "p", "s", ":">> }
    /\ HttpUrlParses(url)
    /\ ~Includes(ToLowerCase(url), <<"j", "a", "v", "a", "s", "c", "r", "i", "p", "t", ":">>)
    /\ ~Includes(ToLowerCase(url), <<"d", "a", "t", "a", ":">>)
    /\ ~HasControlChar(url)
    /\ ~Includes(ToLowerCase(url), <<"<", "s", "c", "r", "i", "p", "t">>)
    /\ ~HasOnHandler(url)
    /\ ~Includes(ToLowerCase(url), <<"v", "b", "s", "c", "r", "i", "p", "t", ":">>)


\* String.prototype.split(c) for a one-character separator
RECURSIVE SplitChar(_, _)
SplitChar(s, c) ==
    LET i == IndexOfChar(s, c)
    IN  IF i = 0 THEN << s >>
        ELSE << SubSeq(s, 1, i - 1) >> \o SplitChar(SubSeq(s, i + 1, Len(s)), c)

\* Array.prototype.join
RECURSIVE Join(_, _)
Join(parts, sep) ==
    IF parts = <<>> THEN <<>>
    ELSE IF Len(parts) = 1 THEN parts[1]
    ELSE parts[1] \o sep \o Join(Tail(parts), sep)

\* s.replace(/[class]/g, '')
RemoveChars(s, class) == SelectSeq(s, LAMBDA c : c \notin class)

\* s.replace(/\/+/g, '/')
RECURSIVE CollapseSlashes(_)
CollapseSlashes(s) ==
    IF Len(s) < 2 THEN s
    ELSE IF s[1] = "/" /\ s[2] = "/" THEN CollapseSlashes(Tail(s))
    ELSE << s[1] >> \o CollapseSlashes(Tail(s))

\* The position of the "=" that ends the match of /on\w+\s*=/i at i
OnHandlerEnd(s, i) == RunEnd(s, RunEnd(s, i + 2, WordChars), SpaceChars)

\* \b before position i, where s[i] is a word character
WordBoundaryBefore(s, i) == i = 1 \/ s[i - 1] \notin WordChars

\* s.replace(/\bon\w+\s*=/gi, '') from position i on: matches are taken
\* left to right in the string as it is before the replacement
RECURSIVE RemoveOnHandlersFrom(_, _)
RemoveOnHandlersFrom(s, i) ==
    IF i > Len(s) THEN <<>>
    ELSE IF WordBoundaryBefore(s, i) /\ OnHandlerAt(s, i)
    THEN RemoveOnHandlersFrom(s, OnHandlerEnd(s, i) + 1)
    ELSE << s[i] >> \o RemoveOnHandlersFrom(s, i + 1)

\* s.replace(/p/gi, '') for a literal pattern p in lower case, from position i on
RECURSIVE RemoveAllFrom(_, _, _)
RemoveAllFrom(s, p, i) ==
    IF i > Len(s) THEN <<>>
    ELSE IF MatchAt(ToLowerCase(s), i, p) THEN RemoveAllFrom(s, p, i + Len(p))
    ELSE << s[i] >> \o RemoveAllFrom(s, p, i + 1)

\* cleanSegment of sanitizePath
CleanSegment(segment) ==
    LET noInvalid == RemoveChars(segment, { "<", ">", ":", "\"", "|", "?", "*" })
        noControl == RemoveChars(noInvalid, ControlChars)
        noHandler == RemoveOnHandlersFrom(noControl, 1)
        noProtocol == RemoveAllFrom(noHandler, <<"j", "a", "v", "a", "s", "c", "r", "i", "p", "t", ":">>, 1)
    IN  RemoveAllFrom(noProtocol, <<"<", "s", "c", "r", "i", "p", "t">>, 1)

\* The segments sanitizePath keeps, cleaned
RECURSIVE CleanSegments(_)
CleanSegments(segments) ==
    IF segments = <<>> THEN <<>>
    ELSE LET segment == Head(segments)
             rest == CleanSegments(Tail(segments))
         IN  IF segment \in { <<".", ".">>, <<".">>, <<>> } THEN rest
             ELSE IF CleanSegment(segment) # <<>> THEN << CleanSegment(segment) >> \o rest
             ELSE rest

\* sanitizePath
sanitizePath(path) ==
    LET noNul == RemoveChars(path, { NUL })
        sanitized == CollapseSlashes(noNul)
    IN  <<"/">> \o Join(CleanSegments(SplitChar(sanitized, "/")), <<"/">>)

\* A validation that looks for the encoded traversal sequences in lower case only
isValidPathCaseSensitive(path) ==
    /\ ~HasControlChar(path)
    /\ \A protocol \in { <<"j", "a", "v", "a", "s", "c", "r", "i", "p", "t", ":">>, <<"d", "a", "t", "a", ":">>, <<"v", "b", "s", "c", "r", "i", "p", "t", ":">>, <<"f", "i", "l", "e", ":">>, <<"f", "t", "p", ":">> } :
           ~StartsWith(ToLowerCase(path), protocol)
    /\ ~Includes(path, <<".", ".", "/">>)
    /\ ~Includes(path, <<".", ".", "\\">>)
    /\ ~Includes(path, <<"%", "2", "e", "%", "2", "e">>)
    /\ ~Includes(path, <<".", ".", "%", "2", "f">>)
    /\ ~Includes(path, <<"%", "2", "5", "2", "e", "%", "2", "5", "2", "e">>)
    /\ ~StartsWith(path, <<"/", "e", "t", "c", "/">>)
    /\ ~StartsWith(path, <<"/", "u", "s", "r", "/">>)
    /\ ~StartsWith(path, <<"C", ":", "\\">>)
    /\ ~Includes(path, <<":", "\\">>)

\* isValidPath
isValidPath(path) ==
    /\ ~HasControlChar(path)
    /\ \A protocol \in { <<"j", "a", "v", "a", "s", "c", "r", "i", "p", "t", ":">>, <<"d", "a", "t", "a", ":">>, <<"v", "b", "s", "c", "r", "i", "p", "t", ":">>, <<"f", "i", "l", "e", ":">>, <<"f", "t", "p", ":">> } :
           ~StartsWith(ToLowerCase(path), protocol)
    /\ ~Includes(path, <<".", ".", "/">>)
    /\ ~Includes(path, <<".", ".", "\\">>)
    /\ ~Includes(ToLowerCase(path), <<"%", "2", "e", "%", "2", "e">>)
    /\ ~Includes(ToLowerCase(path), <<".", ".", "%", "2", "f">>)
    /\ ~Includes(ToLowerCase(path), <<"%", "2", "5", "2", "e", "%", "2", "5", "2", "e">>)
    /\ ~StartsWith(path, <<"/", "e", "t", "c", "/">>)
    /\ ~StartsWith(path, <<"/", "u", "s", "r", "/">>)
    /\ ~StartsWith(path, <<"C", ":", "\\">>)
    /\ ~Includes(path, <<":", "\\">>)

(***************************************************************************)
(* Map<K, V>                                                               *)
(***************************************************************************)

MapEntry(k, v) == [key |-> k, value |-> v]

MapKeys(m) == { m[i].key : i \in DOMAIN m }

MapHas(m, k) == \E i \in DOMAIN m : m[i].key = k

\* Map.get: the value of k, undefined when k is absent
MapGet(m, k) ==
    IF MapHas(m, k)
    THEN m[CHOOSE i \in DOMAIN m : m[i].key = k].value
    ELSE Undefined

MapDelete(m, k) == SelectSeq(m, LAMBDA e : e.key # k)

\* Map.set: a present key keeps its position, a new key goes last
MapSet(m, k, v) ==
    IF MapHas(m, k)
    THEN [i \in DOMAIN m |-> IF m[i].key = k THEN MapEntry(k, v) ELSE m[i]]
    ELSE Append(m, MapEntry(k, v))

\* Map.keys().next().value: the first key, undefined for an empty Map
MapFirstKey(m) == IF m = <<>> THEN Undefined ELSE m[1].key

(***************************************************************************)
(* LRUCache<K, V>                                                          *)
(***************************************************************************)

LruKeys == { <<"a">>, <<"b">>, <<"c">>, Undefined }

LruValues == { <<"x">>, <<"y">> }

LruCallRec(op, k, v, ret) == [op |-> op, key |-> k, value |-> v, ret |-> ret]

\* new LRUCache(maxSize): a non-positive size throws, so every cache that
\* exists has maxSize >= 1 and starts empty.
LRUInit ==
    /\ maxSize \in 1..MaxCapacity
    /\ cache = <<>>
    /\ lruCall = LruCallRec("new", Undefined, Undefined, Undefined)
    /\ touch = [k \in LruKeys |-> 0]
    /\ clock = 0


\* get(key) that stores the key it misses
LRUGetEntriesStoresMiss(m, key) ==
    IF ~MapHas(m, key)
    THEN MapSet(m, key, Undefined)
    ELSE MapSet(MapDelete(m, key), key, MapGet(m, key))

\* The entries after get(key): a hit moves the key to the end.
LRUGetEntries(m, key) ==
    IF ~MapHas(m, key)
    THEN m
    ELSE MapSet(MapDelete(m, key), key, MapGet(m, key))

\* LRUCache.get
LRUGet(key) ==
    /\ cache' = LRUGetEntries(cache, key)
    /\ lruCall' = LruCallRec("get", key, Undefined,
                             IF MapHas(cache, key) THEN MapGet(cache, key) ELSE Undefined)
    /\ IF MapHas(cache, key)
       THEN /\ clock' = clock + 1
            /\ touch' = [touch EXCEPT ![key] = clock + 1]
       ELSE UNCHANGED <<touch, clock>>
    /\ UNCHANGED maxSize


\* set(key, value) that keeps the value a present key has
LRUSetEntriesKeepsValue(m, cap, key, value) ==
    IF MapHas(m, key)
    THEN MapSet(MapDelete(m, key), key, MapGet(m, key))
    ELSE MapSet(IF Len(m) >= cap /\ m # <<>> THEN Tail(m) ELSE m, key, value)

\* set(key, value) that evicts whenever the cache is full
LRUSetEntriesEvictsWhenFull(m, cap, key, value) ==
    MapSet(MapDelete(IF Len(m) >= cap /\ m # <<>> THEN Tail(m) ELSE m, key), key, value)

\* The entries after set(key, value) on a cache of capacity cap.
LRUSetEntries(m, cap, key, value) ==
    LET afterDelete ==
            IF MapHas(m, key)
            THEN MapDelete(m, key)
            ELSE IF Len(m) >= cap
                 THEN LET firstKey == MapFirstKey(m)
                      IN  IF firstKey # Undefined THEN MapDelete(m, firstKey) ELSE m
                 ELSE m
    IN  MapSet(afterDelete, key, value)

\* LRUCache.set
LRUSet(key, value) ==
    /\ cache' = LRUSetEntries(cache, maxSize, key, value)
    /\ lruCall' = LruCallRec("set", key, value, Undefined)
    /\ clock' = clock + 1
    /\ touch' = [touch EXCEPT ![key] = clock + 1]
    /\ UNCHANGED maxSize

\* LRUCache.has
LRUHas(key) ==
    /\ lruCall' = LruCallRec("has", key, Undefined,
                             IF MapHas(cache, key) THEN <<"t">> ELSE <<"f">>)
    /\ UNCHANGED <<cache, maxSize, touch, clock>>

\* LRUCache.clear
LRUClear ==
    /\ cache' = <<>>
    /\ lruCall' = LruCallRec("clear", Undefined, Undefined, Undefined)
    /\ touch' = [k \in LruKeys |-> 0]
    /\ UNCHANGED <<maxSize, clock>>

\* LRUCache.size
LRUSize == Len(cache)

\* Nothing but the LRUCache object changes
LRUFrame == UNCHANGED <<facVars, engVars, urlVars, fnVars>>

LRUNext ==
    \/ \E k \in LruKeys : (MapHas(cache, k) => clock < MaxOps) /\ LRUGet(k) /\ LRUFrame
    \/ \E k \in LruKeys, v \in LruValues : clock < MaxOps /\ LRUSet(k, v) /\ LRUFrame
    \/ \E k \in LruKeys : LRUHas(k) /\ LRUFrame
    \/ LRUClear /\ LRUFrame


(***************************************************************************)
(* url-builder.ts: SnapkitUrlBuilder constructor                           *)
(***************************************************************************)

CdnConfig(provider, organizationName, baseUrl) ==
    [provider |-> provider, organizationName |-> organizationName, baseUrl |-> baseUrl]

\* !value of a string-or-undefined value
Falsy(value) == value = Undefined \/ value = <<>>

\* /^[a-z0-9-]+$/.test(name)
IsOrganizationName(name) ==
    /\ name # <<>>
    /\ Range(name) \subseteq LowerLetters \cup Digits \cup { "-" }

\* new SnapkitUrlBuilder(config) throws
ConstructorThrows(config) ==
    IF config.provider = <<"s", "n", "a", "p", "k", "i", "t">>
    THEN \/ Falsy(config.organizationName)
         \/ ~IsOrganizationName(config.organizationName)
    ELSE IF config.provider = <<"c", "u", "s", "t", "o", "m">>
    THEN \/ Falsy(config.baseUrl)
         \/ ~isValidUrl(config.baseUrl)
    ELSE TRUE

\* this.baseUrl of a builder whose construction succeeds
BuilderBaseUrl(config) ==
    IF config.provider = <<"s", "n", "a", "p", "k", "i", "t">>
    THEN <<"h", "t", "t", "p", "s", ":", "/", "/">> \o config.organizationName \o <<"-", "c", "d", "n", ".", "s", "n", "a", "p", "k", "i", "t", ".", "s", "t", "u", "d", "i", "o">>
    ELSE config.baseUrl


(***************************************************************************)
(* url-builder.ts: buildImageUrl, buildTransformedUrl                      *)
(***************************************************************************)

\* An ImageTransforms object is a record that has the properties that are
\* set; blur is [flag |-> boolean] or [amount |-> number].
NoTransforms == [property \in {} |-> 0]

\* An encoder that takes every number that is written for truthy
TruthyNumberWritten(transforms, p) == p \in DOMAIN transforms

\* if (transforms.p) for a number-valued property p
TruthyNumber(transforms, p) == p \in DOMAIN transforms /\ transforms[p] # 0

\* if (transforms.p) for a boolean-valued property p
TruthyFlag(transforms, p) == p \in DOMAIN transforms /\ transforms[p]

\* if (transforms.p) for a string-valued property p
TruthyString(transforms, p) == p \in DOMAIN transforms /\ transforms[p] # <<>>

\* if (transforms.blur)
TruthyBlur(transforms) ==
    /\ "blur" \in DOMAIN transforms
    /\ \/ "flag" \in DOMAIN transforms.blur /\ transforms.blur.flag
       \/ "amount" \in DOMAIN transforms.blur /\ transforms.blur.amount # 0

\* parts.push(token) when the condition holds
PushIf(condition, token) == IF condition THEN << token >> ELSE <<>>

\* An encoder that joins the parts last to first
JoinPartsReversed(parts) == Join([i \in DOMAIN parts |-> parts[Len(parts) + 1 - i]], <<",">>)

\* parts.join(',')
JoinParts(parts) == Join(parts, <<",">>)

\* buildTransformString
buildTransformString(transforms) ==
    LET parts ==
            PushIf(TruthyNumber(transforms, "width"), <<"w", ":">> \o Decimal(transforms.width))
         \o PushIf(TruthyNumber(transforms, "height"), <<"h", ":">> \o Decimal(transforms.height))
         \o PushIf(TruthyString(transforms, "fit"), <<"f", "i", "t", ":">> \o transforms.fit)
         \o PushIf(TruthyNumber(transforms, "dpr"), <<"d", "p", "r", ":">> \o Decimal(transforms.dpr))
         \o PushIf(TruthyFlag(transforms, "flip"), <<"f", "l", "i", "p">>)
         \o PushIf(TruthyFlag(transforms, "flop"), <<"f", "l", "o", "p">>)
         \o PushIf(TruthyBlur(transforms),
                   IF "flag" \in DOMAIN transforms.blur THEN <<"b", "l", "u", "r">>
                   ELSE <<"b", "l", "u", "r", ":">> \o Decimal(transforms.blur.amount))
         \o PushIf(TruthyFlag(transforms, "grayscale"), <<"g", "r", "a", "y", "s", "c", "a", "l", "e">>)
         \o PushIf("extract" \in DOMAIN transforms,
                   <<"e", "x", "t", "r", "a", "c", "t", ":">> \o Decimal(transforms.extract.x) \o <<"-">> \o Decimal(transforms.extract.y)
                      \o <<"-">> \o Decimal(transforms.extract.width) \o <<"-">> \o Decimal(transforms.extract.height))
         \o PushIf(TruthyString(transforms, "format") /\ transforms.format # <<"a", "u", "t", "o">>,
                   <<"f", "o", "r", "m", "a", "t", ":">> \o transforms.format)
         \o PushIf(TruthyNumber(transforms, "quality"), <<"q", "u", "a", "l", "i", "t", "y", ":">> \o Decimal(transforms.quality))
    IN  JoinParts(parts)

\* The characters URLSearchParams.toString() writes as they are
FormSafeChars == LowerLetters \cup UpperLetters \cup Digits \cup { "*", "-", ".", "_" }

\* The percent-encoding of the other ASCII characters (the backquote, which
\* no string of the model holds, is left out)
PercentCodes ==
    << << " ", <<"+">> >>, << "!", <<"%", "2", "1">> >>, << "\"", <<"%", "2", "2">> >>, << "#", <<"%", "2", "3">> >>,
       << "$", <<"%", "2", "4">> >>, << "%", <<"%", "2", "5">> >>, << "&", <<"%", "2", "6">> >>, << "'", <<"%", "2", "7">> >>,
       << "(", <<"%", "2", "8">> >>, << ")", <<"%", "2", "9">> >>, << "+", <<"%", "2", "B">> >>, << ",", <<"%", "2", "C">> >>,
       << "/", <<"%", "2", "F">> >>, << ":", <<"%", "3", "A">> >>, << ";", <<"%", "3", "B">> >>, << "<", <<"%", "3", "C">> >>,
       << "=", <<"%", "3", "D">> >>, << ">", <<"%", "3", "E">> >>, << "?", <<"%", "3", "F">> >>, << "@", <<"%", "4", "0">> >>,
       << "[", <<"%", "5", "B">> >>, << "\\", <<"%", "5", "C">> >>, << "]", <<"%", "5", "D">> >>, << "^", <<"%", "5", "E">> >>,
       << "{", <<"%", "7", "B">> >>, << "|", <<"%", "7", "C">> >>, << "}", <<"%", "7", "D">> >>,
       << "~", <<"%", "7", "E">> >>, << NUL, <<"%", "0", "0">> >>, << "\t", <<"%", "0", "9">> >>, << "\n", <<"%", "0", "A">> >>,
       << "\r", <<"%", "0", "D">> >>, << DEL, <<"%", "7", "F">> >> >>

FormEncodeChar(c) ==
    IF c \in FormSafeChars THEN << c >>
    ELSE PercentCodes[CHOOSE i \in DOMAIN PercentCodes : PercentCodes[i][1] = c][2]

\* The application/x-www-form-urlencoded form of a string
RECURSIVE FormEncode(_)
FormEncode(s) ==
    IF s = <<>> THEN <<>> ELSE FormEncodeChar(Head(s)) \o FormEncode(Tail(s))

\* URLSearchParams.prototype.toString, the parameters being a Map
SearchParamsToString(params) ==
    Join([i \in DOMAIN params |-> FormEncode(params[i].key) \o <<"=">> \o FormEncode(params[i].value)], <<"&">>)

\* The outcome of a call: a returned string or a thrown error
Returned(value) == [outcome |-> "returned", value |-> value, error |-> ""]

Threw(name) == [outcome |-> "threw", value |-> <<>>, error |-> name]

\* src.startsWith('http://') || src.startsWith('https://')
IsCompleteUrl(src) == StartsWith(src, <<"h", "t", "t", "p", ":", "/", "/">>) \/ StartsWith(src, <<"h", "t", "t", "p", "s", ":", "/", "/">>)

\* buildImageUrl of a builder whose baseUrl is base
buildImageUrl(base, src) ==
    IF IsCompleteUrl(src)
    THEN IF ~isValidUrl(src) THEN Threw("SecurityValidationError") ELSE Returned(src)
    ELSE LET pieces == SplitChar(src, "?")
             path == pieces[1]
             query == IF Len(pieces) >= 2 THEN pieces[2] ELSE Undefined
         IN  IF ~isValidPath(path) THEN Threw("SecurityValidationError")
             ELSE LET fullUrl == base \o sanitizePath(path)
                  IN  Returned(IF ~Falsy(query) THEN fullUrl \o <<"?">> \o query ELSE fullUrl)

\* A builder that appends the transform parameter even when it is empty
NoTransformStringNever(transformString) == FALSE

\* !transformString
NoTransformString(transformString) == transformString = <<>>

\* buildTransformedUrl of a builder whose baseUrl is base
buildTransformedUrl(base, src, transforms) ==
    LET transformString == buildTransformString(transforms)
    IN  IF IsCompleteUrl(src)
        THEN IF ~isValidUrl(src) THEN Threw("SecurityValidationError")
             ELSE LET urlParam == MapSet(<<>>, <<"u", "r", "l">>, src)
                      params == IF transformString # <<>>
                                THEN MapSet(urlParam, <<"t", "r", "a", "n", "s", "f", "o", "r", "m">>, transformString)
                                ELSE urlParam
                  IN  Returned(base \o <<"/", "i", "m", "a", "g", "e", "?">> \o SearchParamsToString(params))
        ELSE LET image == buildImageUrl(base, src)
                 params == MapSet(<<>>, <<"t", "r", "a", "n", "s", "f", "o", "r", "m">>, transformString)
             IN  IF image.outcome = "threw" THEN image
                 ELSE IF NoTransformString(transformString) THEN image
                 ELSE IF Includes(image.value, <<"?">>)
                 THEN Returned(image.value \o <<"&">> \o SearchParamsToString(params))
                 ELSE Returned(image.value \o <<"?">> \o SearchParamsToString(params))

\* The configurations of the builders under test
UrlBuilderConfigs ==
    { CdnConfig(<<"s", "n", "a", "p", "k", "i", "t">>, <<"a", "c", "m", "e">>, Undefined),
      CdnConfig(<<"c", "u", "s", "t", "o", "m">>, Undefined, <<"h", "t", "t", "p", "s", ":", "/", "/", "a", ".", "i", "o">>),
      CdnConfig(<<"c", "u", "s", "t", "o", "m">>, Undefined, <<"h", "t", "t", "p", "s", ":", "/", "/", "a", ".", "i", "o", "/", "?", "k", "=", "1">>),
      CdnConfig(<<"c", "u", "s", "t", "o", "m">>, Undefined, <<"f", "t", "p", ":", "/", "/", "a", ".", "i", "o">>) }

\* The pieces a relative src is put together from
SrcTokens == { <<"i", "m", "g", ".", "j", "p", "g">>, <<"/">>, <<".", ".">>, <<"?">>, <<"?", "v", "=", "1">>, <<"&">> }

\* The strings of at most n tokens
RECURSIVE TokenStrings(_)
TokenStrings(n) ==
    IF n = 0 THEN { <<>> }
    ELSE LET shorter == TokenStrings(n - 1)
         IN  shorter \cup { s \o t : s \in shorter, t \in SrcTokens }

\* Complete URLs handed to the builder as src
CompleteSources ==
    { <<"h", "t", "t", "p", "s", ":", "/", "/", "e", "x", "t", ".", "c", "d", "n", "/", "a", ".", "j", "p", "g">>, <<"h", "t", "t", "p", ":", "/", "/", "e", "x", "t", ".", "c", "d", "n", "/", "a", ".", "j", "p", "g", "?", "v", "=", "1">>, <<"h", "t", "t", "p", "s", ":", "/", "/">>,
      <<"h", "t", "t", "p", "s", ":", "/", "/", "e", "x", "t", ".", "c", "d", "n", "/", "<", "s", "c", "r", "i", "p", "t", ">">>, <<"h", "t", "t", "p", "s", ":", "/", "/", "e", "x", "t", ".", "c", "d", "n", "/", "a", ".", "j", "p", "g", "?", "o", "n", "l", "o", "a", "d", "=", "x">> }

Sources == TokenStrings(MaxTokens) \cup CompleteSources

\* The transform sets handed to buildTransformedUrl
TransformSets ==
    { NoTransforms,
      [width |-> 800],
      [quality |-> 85, width |-> 800],
      [format |-> <<"a", "u", "t", "o">>, quality |-> 0],
      [flip |-> FALSE, blur |-> [flag |-> TRUE]],
      [width |-> 800, height |-> 600, fit |-> <<"c", "o", "v", "e", "r">>, dpr |-> 2, flip |-> TRUE, flop |-> TRUE,
       blur |-> [amount |-> 5], grayscale |-> TRUE,
       extract |-> [x |-> 10, y |-> 20, width |-> 100, height |-> 200],
       format |-> <<"w", "e", "b", "p">>, quality |-> 85] }

UrlCallRec(op, src, transforms, result) ==
    [op |-> op, src |-> src, transforms |-> transforms, result |-> result]

\* A builder that has not been called yet, and the arguments it is about to
\* be called with
NewBuilder(config, src, transforms) ==
    /\ ~ConstructorThrows(config)
    /\ thisBaseUrl = BuilderBaseUrl(config)
    /\ urlCall = UrlCallRec("new", src, transforms, Returned(<<>>))

UrlInit ==
    \E config \in UrlBuilderConfigs, src \in Sources, transforms \in TransformSets :
        NewBuilder(config, src, transforms)

BuildImageUrl ==
    /\ urlCall' = UrlCallRec("buildImageUrl", urlCall.src, urlCall.transforms,
                             buildImageUrl(thisBaseUrl, urlCall.src))
    /\ UNCHANGED thisBaseUrl

BuildTransformedUrl ==
    /\ urlCall' = UrlCallRec("buildTransformedUrl", urlCall.src, urlCall.transforms,
                             buildTransformedUrl(thisBaseUrl, urlCall.src, urlCall.transforms))
    /\ UNCHANGED thisBaseUrl

\* Nothing but the builder under test changes
UrlFrame == UNCHANGED <<lruVars, facVars, engVars, fnVars>>

UrlNext ==
    \/ BuildImageUrl /\ UrlFrame
    \/ BuildTransformedUrl /\ UrlFrame


(***************************************************************************)
(* url-builder.ts: buildTransformString on objects                         *)
(***************************************************************************)

FnCallRec(op, args, result) == [op |-> op, args |-> args, result |-> result]

\* Nothing but the subject of a pure function changes
FnFrame == UNCHANGED <<lruVars, facVars, engVars, urlVars>>

\* A property of an object literal
Property(name, value) == [name |-> name, value |-> value]

\* The properties an ImageTransforms object is written with
TransformProperties ==
    << Property("width", 800), Property("height", 600), Property("fit", <<"c", "o", "v", "e", "r">>),
       Property("dpr", 2), Property("flip", TRUE), Property("flop", TRUE),
       Property("blur", [amount |-> 5]), Property("grayscale", TRUE),
       Property("extract", [x |-> 10, y |-> 20, width |-> 100, height |-> 200]),
       Property("format", <<"w", "e", "b", "p">>), Property("quality", 85),
       Property("width", 0), Property("flip", FALSE),
       Property("blur", [flag |-> TRUE]), Property("blur", [flag |-> FALSE]),
       Property("blur", [amount |-> 0]), Property("grayscale", FALSE),
       Property("format", <<"a", "u", "t", "o">>), Property("quality", 0) >>

\* An object literal is the sequence of the properties it is written with,
\* each one a position in TransformProperties
PropertyNames(object) == { TransformProperties[object[i]].name : i \in DOMAIN object }

\* The object literals of at most n properties, in every order of writing
RECURSIVE ObjectLiterals(_)
ObjectLiterals(n) ==
    IF n = 0 THEN { <<>> }
    ELSE LET shorter == ObjectLiterals(n - 1)
         IN  shorter \cup
             UNION { { Append(o, q) : q \in { r \in DOMAIN TransformProperties :
                                                TransformProperties[r].name \notin PropertyNames(o) } } :
                     o \in shorter }

\* The object of the documentation's example, written first to last
FullObject == <<1, 2, 3, 4, 5, 6, 7, 8, 9, 10, 11>>

Reversed(seq) == [i \in DOMAIN seq |-> seq[Len(seq) + 1 - i]]

TransformObjects == ObjectLiterals(MaxProperties) \cup { FullObject, Reversed(FullObject) }

\* The object as property access sees it: transforms.name for every name written
PropertiesOf(object) ==
    [name \in PropertyNames(object) |->
        TransformProperties[object[CHOOSE i \in DOMAIN object :
                                      TransformProperties[object[i]].name = name]].value]

EncodeInit == \E object \in TransformObjects : fnCall = FnCallRec("new", object, <<>>)

BuildTransformString ==
    /\ fnCall.op = "new"
    /\ fnCall' = FnCallRec("buildTransformString", fnCall.args,
                           buildTransformString(PropertiesOf(fnCall.args)))

EncodeNext == BuildTransformString /\ FnFrame


(***************************************************************************)
(* security-utils.ts, url-builder.ts: the validation of paths              *)
(***************************************************************************)

\* The pieces a path handed to the validation is put together from
ValidateTokens ==
    { <<"i", "m", "g">>, <<"/">>, <<"?">>, <<".", ".">>, <<".", ".", "/">>, <<".", ".", "\\">>, <<"%", "2", "e", "%", "2", "e">>, <<"%", "2", "E", "%", "2", "e">>, <<".", ".", "%", "2", "F">>, <<"%", "2", "5", "2", "e", "%", "2", "5", "2", "E">>,
      << "\t" >>, << NUL >>, << DEL >>,
      <<"j", "a", "v", "a", "s", "c", "r", "i", "p", "t", ":">>, <<"D", "A", "T", "A", ":">>, <<"v", "b", "s", "c", "r", "i", "p", "t", ":">>, <<"f", "i", "l", "e", ":">>, <<"f", "t", "p", ":">>,
      <<"/", "e", "t", "c", "/">>, <<"/", "u", "s", "r", "/">>, <<"C", ":", "\\">> }

\* The strings of at most n of these tokens
RECURSIVE ValidateStrings(_)
ValidateStrings(n) ==
    IF n = 0 THEN { <<>> }
    ELSE LET shorter == ValidateStrings(n - 1)
         IN  shorter \cup { s \o t : s \in shorter, t \in ValidateTokens }

\* The transform set of the buildTransformedUrl calls
ValidateTransforms == [width |-> 800]

ValidateInit == \E src \in ValidateStrings(MaxValidateTokens) : fnCall = FnCallRec("new", src, <<>>)

IsValidPath ==
    /\ fnCall.op = "new"
    /\ fnCall' = FnCallRec("isValidPath", fnCall.args, isValidPath(fnCall.args))

BuildImageUrlOfPath ==
    /\ fnCall.op = "new"
    /\ fnCall' = FnCallRec("buildImageUrl", fnCall.args, buildImageUrl(thisBaseUrl, fnCall.args))

BuildTransformedUrlOfPath ==
    /\ fnCall.op = "new"
    /\ fnCall' = FnCallRec("buildTransformedUrl", fnCall.args,
                           buildTransformedUrl(thisBaseUrl, fnCall.args, ValidateTransforms))

ValidateNext ==
    \/ IsValidPath /\ FnFrame
    \/ BuildImageUrlOfPath /\ FnFrame
    \/ BuildTransformedUrlOfPath /\ FnFrame


(***************************************************************************)
(* security-utils.ts, url-builder.ts: the sanitization of paths            *)
(***************************************************************************)

\* The pieces a path handed to the sanitization is put together from
SanitizeTokens ==
    { <<"i", "m", "g">>, <<"/">>, <<".">>, <<".", ".">>, <<"<">>, <<"?">>, <<"o", "n", "x">>, <<"=">>, << NUL >>, <<"<", "s", "c", "r", "i", "p", "t">> }

\* The strings of at most n of these tokens
RECURSIVE SanitizeStrings(_)
SanitizeStrings(n) ==
    IF n = 0 THEN { <<>> }
    ELSE LET shorter == SanitizeStrings(n - 1)
         IN  shorter \cup { s \o t : s \in shorter, t \in SanitizeTokens }

\* Paths with an event handler in them
HandlerPaths == { <<"o", "n", "e", "r", "r", "o", "r", "=", "a", "l", "e", "r", "t", "(", "1", ")">>, <<"i", "m", "g", " ", "o", "n", "l", "o", "a", "d", " ", "=", "x">>, <<"o", "n", "x", " ", "o", "n", "x", "=", "=">> }

SanitizeInit ==
    \E path \in SanitizeStrings(MaxSanitizeTokens) \cup HandlerPaths :
        fnCall = FnCallRec("new", path, <<>>)

SanitizePath ==
    /\ fnCall.op = "new"
    /\ fnCall' = FnCallRec("sanitizePath", fnCall.args, sanitizePath(fnCall.args))

SanitizeNext ==
    \/ SanitizePath /\ FnFrame
    \/ BuildImageUrlOfPath /\ FnFrame


(***************************************************************************)
(* constants.ts, format detection: checkAvifSupport                        *)
(***************************************************************************)

MIN_CHROME_VERSION_AVIF == 85

MIN_FIREFOX_VERSION_AVIF == 93

MIN_EDGE_VERSION_AVIF == 91

IOS_AVIF_ISSUE_VERSION_MAJOR == 16

IOS_AVIF_ISSUE_VERSION_MINOR_START == 0

\* IOS_AVIF_ISSUE_VERSION_MINOR_END, were the issue over with iOS 16.2
IOS_AVIF_ISSUE_VERSION_MINOR_END_Two == 3 - 1

IOS_AVIF_ISSUE_VERSION_MINOR_END == 3

IOS_AVIF_SUPPORT_VERSION_MINOR == 4

\* browserInfo.iosVersion is set
HasIosVersion(browserInfo) == "iosVersion" \in DOMAIN browserInfo

\* The iOS version is one of those with the AVIF issue
IosAvifIssue(iosVersion) ==
    /\ iosVersion.major = IOS_AVIF_ISSUE_VERSION_MAJOR
    /\ iosVersion.minor >= IOS_AVIF_ISSUE_VERSION_MINOR_START
    /\ iosVersion.minor <= IOS_AVIF_ISSUE_VERSION_MINOR_END

checkAvifSupport(browserInfo) ==
    IF HasIosVersion(browserInfo) /\ IosAvifIssue(browserInfo.iosVersion)
    THEN FALSE
    ELSE CASE browserInfo.name = "chrome" ->
                  browserInfo.version >= MIN_CHROME_VERSION_AVIF
           [] browserInfo.name = "firefox" ->
                  browserInfo.version >= MIN_FIREFOX_VERSION_AVIF
           [] browserInfo.name = "edge" ->
                  browserInfo.version >= MIN_EDGE_VERSION_AVIF
           [] browserInfo.name = "legacy-edge" -> FALSE
           [] browserInfo.name = "safari" ->
                  IF HasIosVersion(browserInfo)
                  THEN \/ browserInfo.iosVersion.major > IOS_AVIF_ISSUE_VERSION_MAJOR
                       \/ /\ browserInfo.iosVersion.major = IOS_AVIF_ISSUE_VERSION_MAJOR
                          /\ browserInfo.iosVersion.minor >= IOS_AVIF_SUPPORT_VERSION_MINOR
                  ELSE FALSE
           [] OTHER -> FALSE

BrowserNames == { "chrome", "firefox", "safari", "edge", "legacy-edge", "unknown" }

\* Versions around each of the thresholds, and the 0 of an unknown version
BrowserVersions ==
    { 0, IOS_AVIF_ISSUE_VERSION_MAJOR, IOS_AVIF_ISSUE_VERSION_MAJOR + 1,
      MIN_CHROME_VERSION_AVIF - 1, MIN_CHROME_VERSION_AVIF,
      MIN_EDGE_VERSION_AVIF - 1, MIN_EDGE_VERSION_AVIF,
      MIN_FIREFOX_VERSION_AVIF - 1, MIN_FIREFOX_VERSION_AVIF }

Platforms == { "desktop", "ios", "android", "unknown" }

IosVersions ==
    [ major : (IOS_AVIF_ISSUE_VERSION_MAJOR - 1) .. (IOS_AVIF_ISSUE_VERSION_MAJOR + 1),
      minor : 0 .. MaxIosMinor ]

BrowserInfos ==
    [ name : BrowserNames, version : BrowserVersions, platform : Platforms ]
    \cup [ name : BrowserNames, version : BrowserVersions, platform : Platforms,
           iosVersion : IosVersions ]

AvifInit == \E browserInfo \in BrowserInfos : fnCall = FnCallRec("new", browserInfo, <<>>)

CheckAvifSupport ==
    /\ fnCall.op = "new"
    /\ fnCall' = FnCallRec("checkAvifSupport", fnCall.args, checkAvifSupport(fnCall.args))

AvifNext == CheckAvifSupport /\ FnFrame


(***************************************************************************)
(* format detection: parseBrowserInfo                                      *)
(***************************************************************************)

\* parseInt of a string of decimal digits
RECURSIVE ParseInt(_)
ParseInt(digits) ==
    IF digits = <<>> THEN 0
    ELSE 10 * ParseInt(SubSeq(digits, 1, Len(digits) - 1))
         + (CHOOSE d \in 0..9 : DigitSeq[d + 1] = digits[Len(digits)])

\* The group of ua.match(/<prefix>(\d+)/): the digits after the first
\* occurrence of the prefix that has a digit behind it, <<>> without a match
MatchNumber(ua, prefix) ==
    LET starts == { i \in DOMAIN ua :
                        /\ MatchAt(ua, i, prefix)
                        /\ i + Len(prefix) <= Len(ua)
                        /\ ua[i + Len(prefix)] \in Digits }
    IN  IF starts = {} THEN <<>>
        ELSE LET first == CHOOSE i \in starts : \A j \in starts : i <= j
                 digit == first + Len(prefix)
             IN  SubSeq(ua, digit, RunEnd(ua, digit, Digits) - 1)

\* The groups of ua.match(/OS (\d+)_(\d+)/), <<>> without a match
IosMatch(ua) ==
    LET starts == { i \in DOMAIN ua :
                        /\ MatchAt(ua, i, <<"O", "S", " ">>)
                        /\ i + 3 <= Len(ua)
                        /\ ua[i + 3] \in Digits
                        /\ LET under == RunEnd(ua, i + 3, Digits)
                           IN  /\ under + 1 <= Len(ua)
                               /\ ua[under] = "_"
                               /\ ua[under + 1] \in Digits }
    IN  IF starts = {} THEN <<>>
        ELSE LET first == CHOOSE i \in starts : \A j \in starts : i <= j
                 under == RunEnd(ua, first + 3, Digits)
             IN  << SubSeq(ua, first + 3, under - 1),
                    SubSeq(ua, under + 1, RunEnd(ua, under + 1, Digits) - 1) >>

\* The group of ua.match(/Version\/(\d+).*Safari/), <<>> without a match
SafariMatch(ua) ==
    LET version == MatchNumber(ua, <<"V", "e", "r", "s", "i", "o", "n", "/">>)
    IN  IF /\ version # <<>>
           /\ \E i \in DOMAIN ua :
                  /\ MatchAt(ua, i, <<"V", "e", "r", "s", "i", "o", "n", "/">>)
                  /\ i + 8 <= Len(ua)
                  /\ ua[i + 8] \in Digits
                  /\ \E j \in (i + 9)..Len(ua) :
                         /\ MatchAt(ua, j, <<"S", "a", "f", "a", "r", "i">>)
                         /\ \A h \in i..j : ua[h] \notin { "\n", "\r" }
        THEN version
        ELSE <<>>

\* The order of the if / else if chain, were Chrome looked for first
BrowserPatternOrderChromeFirst == << "chrome", "edge", "legacy-edge", "firefox", "safari" >>

\* The order of the if / else if chain over the matches
BrowserPatternOrder == << "edge", "legacy-edge", "chrome", "firefox", "safari" >>

parseBrowserInfo(ua) ==
    LET iosMatch == IosMatch(ua)
        platform ==
            IF iosMatch # <<>> THEN "ios"
            ELSE IF Includes(ua, <<"A", "n", "d", "r", "o", "i", "d">>) THEN "android"
            ELSE IF \/ Includes(ua, <<"W", "i", "n", "d", "o", "w", "s">>)
                    \/ Includes(ua, <<"M", "a", "c", "i", "n", "t", "o", "s", "h">>)
                    \/ Includes(ua, <<"L", "i", "n", "u", "x">>) THEN "desktop"
            ELSE "unknown"
        chromeMatch == MatchNumber(ua, <<"C", "h", "r", "o", "m", "e", "/">>)
        iosChromeMatch == MatchNumber(ua, <<"C", "r", "i", "O", "S", "/">>)
        firefoxMatch == MatchNumber(ua, <<"F", "i", "r", "e", "f", "o", "x", "/">>)
        edgeMatch == MatchNumber(ua, <<"E", "d", "g", "/">>)
        legacyEdgeMatch == MatchNumber(ua, <<"E", "d", "g", "e", "/">>)
        safariMatch == SafariMatch(ua)
        taken == [ n \in Range(BrowserPatternOrder) |->
                     CASE n = "edge" -> edgeMatch # <<>>
                       [] n = "legacy-edge" -> legacyEdgeMatch # <<>>
                       [] n = "chrome" -> chromeMatch # <<>> \/ iosChromeMatch # <<>>
                       [] n = "firefox" -> firefoxMatch # <<>>
                       [] n = "safari" -> safariMatch # <<>> \/ platform = "ios" ]
        version == [ n \in Range(BrowserPatternOrder) |->
                     CASE n = "edge" -> ParseInt(edgeMatch)
                       [] n = "legacy-edge" -> ParseInt(legacyEdgeMatch)
                       [] n = "chrome" -> IF chromeMatch # <<>> THEN ParseInt(chromeMatch)
                                          ELSE ParseInt(iosChromeMatch)
                       [] n = "firefox" -> ParseInt(firefoxMatch)
                       [] n = "safari" -> IF safariMatch # <<>> THEN ParseInt(safariMatch) ELSE 0 ]
        branches == { k \in DOMAIN BrowserPatternOrder : taken[BrowserPatternOrder[k]] }
        name == IF branches = {} THEN "unknown"
                ELSE BrowserPatternOrder[CHOOSE k \in branches : \A h \in branches : k <= h]
        info == [ name |-> name,
                  version |-> IF name = "unknown" THEN 0 ELSE version[name],
                  platform |-> platform ]
    IN  IF iosMatch = <<>> THEN info
        ELSE [ name |-> info.name, version |-> info.version, platform |-> info.platform,
               iosVersion |-> [ major |-> ParseInt(iosMatch[1]), minor |-> ParseInt(iosMatch[2]) ] ]

\* The pieces a user-agent string is put together from
UaTokens ==
    { <<"M", "o", "z", "i", "l", "l", "a", "/", "5", ".", "0", " ">>, <<"W", "i", "n", "d", "o", "w", "s", " ">>, <<"A", "n", "d", "r", "o", "i", "d", " ">>, <<"i", "P", "h", "o", "n", "e", " ", "O", "S", " ", "1", "6", "_", "3", " ">>, <<"M", "a", "c", " ", "O", "S", " ", "X", " ", "1", "0", "_", "1", "5", " ">>,
      <<"E", "d", "g", "/", "1", "2", "0", " ">>, <<"E", "d", "g", "/", " ">>, <<"E", "d", "g", "e", "/", "1", "8", " ">>, <<"C", "h", "r", "o", "m", "e", "/", "1", "1", "9", " ">>, <<"C", "r", "i", "O", "S", "/", "1", "0", "0", " ">>, <<"F", "i", "r", "e", "f", "o", "x", "/", "9", "3", " ">>,
      <<"V", "e", "r", "s", "i", "o", "n", "/", "1", "6", " ">>, <<"S", "a", "f", "a", "r", "i", "/", "6", "0", "5", " ">> }

\* The strings of at most n of these tokens
RECURSIVE UserAgents(_)
UserAgents(n) ==
    IF n = 0 THEN { <<>> }
    ELSE LET shorter == UserAgents(n - 1)
         IN  shorter \cup { s \o t : s \in shorter, t \in UaTokens }

ParseInit == \E ua \in UserAgents(MaxUaTokens) : fnCall = FnCallRec("new", ua, <<>>)

ParseBrowserInfo ==
    /\ fnCall.op = "new"
    /\ fnCall' = FnCallRec("parseBrowserInfo", fnCall.args, parseBrowserInfo(fnCall.args))

ParseNext == ParseBrowserInfo /\ FnFrame


(***************************************************************************)
(* constants.ts, responsive utilities: adjustQualityForConnection          *)
(***************************************************************************)

MIN_IMAGE_QUALITY == 1

MAX_IMAGE_QUALITY == 100

QUALITY_REDUCTION_SAVE_DATA == 30

QUALITY_REDUCTION_2G == 40

QUALITY_REDUCTION_3G == 20

MIN_QUALITY_SAVE_DATA == 40

MIN_QUALITY_2G == 30

\* MIN_QUALITY_3G, were the floor of 3g that of save-data
MIN_QUALITY_3G_Forty == 50 - 10

MIN_QUALITY_3G == 50

\* Math.max
Max(a, b) == IF a >= b THEN a ELSE b

\* The function in an environment: window tells whether typeof window is not
\* 'undefined', connection is navigator.connection ("" for an effectiveType
\* that is not set); connectionType "" is the argument left out.
adjustQualityForConnection(baseQuality, connectionType, window, connection) ==
    IF ~window THEN baseQuality
    ELSE LET effectiveType ==
                 IF connectionType # "" THEN connectionType
                 ELSE IF connection.present THEN connection.effectiveType
                 ELSE ""
             saveData == connection.present /\ connection.saveData
         IN  IF saveData
             THEN Max(MIN_QUALITY_SAVE_DATA, baseQuality - QUALITY_REDUCTION_SAVE_DATA)
             ELSE CASE effectiveType \in { "slow-2g", "2g" } ->
                           Max(MIN_QUALITY_2G, baseQuality - QUALITY_REDUCTION_2G)
                    [] effectiveType = "3g" ->
                           Max(MIN_QUALITY_3G, baseQuality - QUALITY_REDUCTION_3G)
                    [] OTHER -> baseQuality

\* navigator.connection: not there, or a NetworkInformation
Connections ==
    { [ present |-> FALSE, effectiveType |-> "", saveData |-> FALSE ] }
    \cup [ present : { TRUE }, effectiveType : { "", "slow-2g", "2g", "3g", "4g" },
           saveData : BOOLEAN ]

QualityCalls ==
    [ baseQuality : MIN_IMAGE_QUALITY..MAX_IMAGE_QUALITY,
      connectionType : { "", "slow-2g", "2g", "3g", "4g", "5g" },
      window : BOOLEAN,
      connection : Connections ]

QualityInit == \E call \in QualityCalls : fnCall = FnCallRec("new", call, <<>>)

AdjustQualityForConnection ==
    /\ fnCall.op = "new"
    /\ fnCall' = FnCallRec("adjustQualityForConnection", fnCall.args,
                           adjustQualityForConnection(fnCall.args.baseQuality,
                                                      fnCall.args.connectionType,
                                                      fnCall.args.window,
                                                      fnCall.args.connection))

QualityNext == AdjustQualityForConnection /\ FnFrame


(***************************************************************************)
(* responsive utilities: generateResponsiveWidths                          *)
(***************************************************************************)

\* Math.round(baseWidth * multiplier) for a multiplier given in quarters
\* (1 is 0.25, 4 is 1, 8 is 2): the nearest integer, a half rounded up
RoundedWidth(baseWidth, quarters) == (baseWidth * quarters + 2) \div 4

\* The array as it is handed on, were it not sorted
SortNot(widths) == widths

\* Array.prototype.sort((a, b) => a - b)
RECURSIVE SortAscending(_)
SortAscending(widths) ==
    IF widths = <<>> THEN <<>>
    ELSE LET least == CHOOSE i \in DOMAIN widths :
                          /\ \A j \in DOMAIN widths : widths[i] <= widths[j]
                          /\ \A j \in 1..(i - 1) : widths[j] # widths[i]
         IN  << widths[least] >>
             \o SortAscending(SubSeq(widths, 1, least - 1)
                              \o SubSeq(widths, least + 1, Len(widths)))

\* filter((width, index, arr) => arr.indexOf(width) === index)
RECURSIVE RemoveDuplicates(_)
RemoveDuplicates(widths) ==
    IF widths = <<>> THEN <<>>
    ELSE LET front == SubSeq(widths, 1, Len(widths) - 1)
             last == widths[Len(widths)]
         IN  IF last \in Range(front) THEN RemoveDuplicates(front)
             ELSE Append(RemoveDuplicates(front), last)

generateResponsiveWidths(baseWidth, multipliers, minWidth, maxWidth) ==
    LET mapped == [ i \in DOMAIN multipliers |-> RoundedWidth(baseWidth, multipliers[i]) ]
        InRange(width) == width >= minWidth /\ width <= maxWidth
    IN  SortAscending(RemoveDuplicates(SelectSeq(mapped, InRange)))

\* Six of the default multipliers: 0.25, 0.5, 0.75, 1, 1.5 and 2, in quarters
MultiplierQuarters == { 1, 2, 3, 4, 6, 8 }

\* The arrays of at most n of these multipliers
RECURSIVE MultiplierArrays(_)
MultiplierArrays(n) ==
    IF n = 0 THEN { <<>> }
    ELSE LET shorter == MultiplierArrays(n - 1)
         IN  shorter \cup { Append(s, q) : s \in shorter, q \in MultiplierQuarters }

\* The pairs minWidth, maxWidth of the options
WidthRanges == { << 1, 6 >>, << 2, 4 >> }

WidthsInit ==
    \E baseWidth \in 1..MaxBaseWidth, multipliers \in MultiplierArrays(MaxMultipliers),
       range \in WidthRanges :
        fnCall = FnCallRec("new",
                           [ baseWidth |-> baseWidth, multipliers |-> multipliers,
                             minWidth |-> range[1], maxWidth |-> range[2] ],
                           <<>>)

GenerateResponsiveWidths ==
    /\ fnCall.op = "new"
    /\ fnCall' = FnCallRec("generateResponsiveWidths", fnCall.args,
                           generateResponsiveWidths(fnCall.args.baseWidth,
                                                    fnCall.args.multipliers,
                                                    fnCall.args.minWidth,
                                                    fnCall.args.maxWidth))

WidthsNext == GenerateResponsiveWidths /\ FnFrame

(***************************************************************************)
(* url-builder-factory.ts: UrlBuilderFactory                               *)
(***************************************************************************)

\* The configurations handed to the factory: what getCdnConfig produces
\* (provider snapkit with an organization, provider custom with a base URL),
\* with the field missing, malformed or well-formed, and an unknown provider.
FactoryConfigs ==
    { CdnConfig(<<"s", "n", "a", "p", "k", "i", "t">>, o, Undefined) : o \in { <<"a", "c", "m", "e">>, <<"u", "n", "d", "e", "f", "i", "n", "e", "d">>, <<"A", "c", "m", "e">>, Undefined } }
    \cup { CdnConfig(<<"c", "u", "s", "t", "o", "m">>, Undefined, u) : u \in { <<"h", "t", "t", "p", "s", ":", "/", "/", "a", ".", "i", "o">>, <<"f", "t", "p", ":", "/", "/", "a", ".", "i", "o">>, Undefined } }
    \cup { CdnConfig(<<"i", "m", "g", "i", "x">>, <<"a", "c", "m", "e">>, Undefined) }

\* The configuration of organization org<i>
FillConfig(i) == CdnConfig(<<"s", "n", "a", "p", "k", "i", "t">>, <<"o", "r", "g">> \o Decimal(i), Undefined)

FillConfigs == { FillConfig(i) : i \in 1..MaxFill }

AllConfigs == FactoryConfigs \cup FillConfigs

\* createKey throws
CreateKeyThrows(config) == config.provider \notin { <<"s", "n", "a", "p", "k", "i", "t">>, <<"c", "u", "s", "t", "o", "m">> }

\* UrlBuilderFactory.createKey
createKey(config) ==
    IF config.provider = <<"s", "n", "a", "p", "k", "i", "t">>
    THEN <<"s", "n", "a", "p", "k", "i", "t", ":">> \o ToStr(config.organizationName)
    ELSE <<"c", "u", "s", "t", "o", "m", ":">> \o ToStr(config.baseUrl)

FacCallRec(op, config, outcome, builder, constructed) ==
    [op |-> op, config |-> config, outcome |-> outcome, builder |-> builder,
     constructed |-> constructed]

NoConfig == CdnConfig(Undefined, Undefined, Undefined)

\* The static state of the class when the module is loaded
FactoryInit ==
    /\ instances = <<>>
    /\ built = 0
    /\ facCall = FacCallRec("load", NoConfig, "done", 0, FALSE)
    /\ handed = {}
    /\ madeFor = {}
    /\ before = {}

\* The builders paired with config in a set of <<config, builder>> pairs
BuildersOf(pairs, config) == { p[2] : p \in { q \in pairs : q[1] = config } }

\* A factory that constructs a builder whether or not one is cached
ConstructsAlways(config) == ~CreateKeyThrows(config)

\* getInstance(config) reaches new SnapkitUrlBuilder(config)
Constructs(config) ==
    /\ ~CreateKeyThrows(config)
    /\ ~MapHas(instances, createKey(config))


\* A getInstance that stores an entry under the key before it constructs
\* the builder, so that a constructor that throws leaves the entry behind
getInstanceStoresFirst(config) ==
    IF CreateKeyThrows(config)
    THEN /\ facCall' = FacCallRec("getInstance", config, "threw", 0, FALSE)
         /\ UNCHANGED <<instances, built, handed, madeFor, before>>
    ELSE IF Constructs(config) /\ ConstructorThrows(config)
    THEN /\ facCall' = FacCallRec("getInstance", config, "threw", 0, FALSE)
         /\ instances' = MapSet(instances, createKey(config), [id |-> 0, baseUrl |-> Undefined])
         /\ UNCHANGED <<built, handed, madeFor, before>>
    ELSE LET key == createKey(config)
             builder == [id |-> built + 1, baseUrl |-> BuilderBaseUrl(config)]
             stored == IF Constructs(config) THEN MapSet(instances, key, builder) ELSE instances
             got == MapGet(stored, key)
         IN  /\ instances' = stored
             /\ built' = IF Constructs(config) THEN built + 1 ELSE built
             /\ madeFor' = IF Constructs(config)
                           THEN madeFor \cup { <<config, builder.id>> }
                           ELSE madeFor
             /\ handed' = handed \cup { <<config, got.id>> }
             /\ facCall' = FacCallRec("getInstance", config, "returned", got.id,
                                      Constructs(config))
             /\ UNCHANGED before

\* UrlBuilderFactory.getInstance
getInstance(config) ==
    IF CreateKeyThrows(config) \/ (Constructs(config) /\ ConstructorThrows(config))
    THEN /\ facCall' = FacCallRec("getInstance", config, "threw", 0, FALSE)
         /\ UNCHANGED <<instances, built, handed, madeFor, before>>
    ELSE LET key == createKey(config)
             builder == [id |-> built + 1, baseUrl |-> BuilderBaseUrl(config)]
             stored == IF Constructs(config) THEN MapSet(instances, key, builder) ELSE instances
             got == MapGet(stored, key)
         IN  /\ instances' = stored
             /\ built' = IF Constructs(config) THEN built + 1 ELSE built
             /\ madeFor' = IF Constructs(config)
                           THEN madeFor \cup { <<config, builder.id>> }
                           ELSE madeFor
             /\ handed' = handed \cup { <<config, got.id>> }
             /\ facCall' = FacCallRec("getInstance", config, "returned", got.id,
                                      Constructs(config))
             /\ UNCHANGED before

\* A clearCache that leaves the cached builders in place
clearCacheKeepsInstances ==
    /\ facCall' = FacCallRec("clearCache", NoConfig, "done", 0, FALSE)
    /\ before' = before \cup handed
    /\ handed' = {}
    /\ madeFor' = {}
    /\ UNCHANGED <<instances, built>>

\* UrlBuilderFactory.clearCache
clearCache ==
    /\ instances' = <<>>
    /\ facCall' = FacCallRec("clearCache", NoConfig, "done", 0, FALSE)
    /\ before' = before \cup handed
    /\ handed' = {}
    /\ madeFor' = {}
    /\ UNCHANGED built

\* UrlBuilderFactory.getCacheSize
getCacheSize == Len(instances)

\* Nothing but the factory changes
FactoryFrame == UNCHANGED <<lruVars, engVars, urlVars, fnVars>>

FactoryNext ==
    \/ \E c \in FactoryConfigs :
           (Constructs(c) => built < MaxBuilds) /\ getInstance(c) /\ FactoryFrame
    \/ clearCache /\ FactoryFrame

\* The requests of organizations org1, org2, ... in turn, each repeated at will
FillNext ==
    \/ \E i \in 1..MaxFill : i = getCacheSize + 1 /\ getInstance(FillConfig(i)) /\ FactoryFrame
    \/ \E i \in 1..MaxFill : i <= getCacheSize /\ getInstance(FillConfig(i)) /\ FactoryFrame


(***************************************************************************)
(* constants.ts                                                            *)
(***************************************************************************)

\* A TTL of one minute, for comparison
DEFAULT_CACHE_TTL_OneMinute == 60 * 1000

DEFAULT_CACHE_TTL == 5 * 60 * 1000

\* A capacity of eleven engines, for comparison
MAX_CACHE_SIZE_Eleven == 10 + 1

MAX_CACHE_SIZE == 10

(***************************************************************************)
(* image-engine-cache.ts: ImageEngineCache                                 *)
(***************************************************************************)

SnapkitConfig(cdnConfig, defaultQuality, defaultFormat) ==
    [cdnConfig |-> cdnConfig, defaultQuality |-> defaultQuality,
     defaultFormat |-> defaultFormat]

\* The configuration of organization org<i>, quality 80, format auto
EngineConfig(i) == SnapkitConfig(FillConfig(i), 80, <<"a", "u", "t", "o">>)

\* The cache key: the fields of the configuration in a fixed order
engineKey(config) ==
    << config.cdnConfig.provider, ToStr(config.cdnConfig.organizationName),
       ToStr(config.cdnConfig.baseUrl), config.defaultQuality, ToStr(config.defaultFormat) >>

EngCallRec(op, config, engine, constructed) ==
    [op |-> op, config |-> config, engine |-> engine, constructed |-> constructed]

NeverSeen == [at |-> -1, engine |-> 0, born |-> -1]

EngineInit ==
    /\ engines = <<>>
    /\ now = 0
    /\ engBuilt = 0
    /\ engCall = EngCallRec("load", 0, 0, FALSE)
    /\ seen = <<>>

\* The entries of m whose last access is the oldest
OldestEntries(m) ==
    { i \in DOMAIN m : \A j \in DOMAIN m : m[i].value.lastAccess <= m[j].value.lastAccess }

\* m after the eviction of entries, oldest last access first, until it holds
\* fewer than cap entries: every order of entries of equal age is allowed.
RECURSIVE EvictedDownTo(_, _)
EvictedDownTo(m, cap) ==
    IF Len(m) < cap THEN { m }
    ELSE UNION { EvictedDownTo(MapDelete(m, m[i].key), cap) : i \in OldestEntries(m) }

\* The entry of key is live at time t: the TTL has not elapsed since its last
\* access (at exactly the TTL either reading is allowed).
LiveReadings(m, key, t) ==
    IF ~MapHas(m, key) THEN { FALSE }
    ELSE LET age == t - MapGet(m, key).lastAccess
         IN  IF age < DEFAULT_CACHE_TTL THEN { TRUE }
             ELSE IF age > DEFAULT_CACHE_TTL THEN { FALSE }
             ELSE { TRUE, FALSE }

Seen(i) == IF i \in DOMAIN seen THEN seen[i] ELSE NeverSeen

\* ImageEngineCache.getInstance(EngineConfig(i))
getEngineInstance(i) ==
    LET config == EngineConfig(i)
        key == engineKey(config)
    IN  \E live \in LiveReadings(engines, key, now) :
          IF live
          THEN LET entry == MapGet(engines, key)
               IN  /\ engines' = MapSet(engines, key, [entry EXCEPT !.lastAccess = now])
                   /\ engCall' = EngCallRec("getInstance", i, entry.engine, FALSE)
                   /\ seen' = [j \in DOMAIN seen \cup {i} |->
                                 IF j = i THEN [at |-> now, engine |-> entry.engine, born |-> seen[i].born]
                                 ELSE seen[j]]
                   /\ UNCHANGED <<now, engBuilt>>
          ELSE \E room \in IF MapHas(engines, key)
                           THEN { engines }
                           ELSE EvictedDownTo(engines, MAX_CACHE_SIZE) :
                 /\ engines' = MapSet(room, key, [engine |-> engBuilt + 1, lastAccess |-> now])
                 /\ engBuilt' = engBuilt + 1
                 /\ engCall' = EngCallRec("getInstance", i, engBuilt + 1, TRUE)
                 /\ seen' = [j \in DOMAIN seen \cup {i} |->
                               IF j = i THEN [at |-> now, engine |-> engBuilt + 1, born |-> now]
                               ELSE seen[j]]
                 /\ UNCHANGED now

\* ImageEngineCache.clearCache
clearEngineCache ==
    /\ engines' = <<>>
    /\ engCall' = EngCallRec("clearCache", 0, 0, FALSE)
    /\ seen' = <<>>
    /\ UNCHANGED <<now, engBuilt>>

\* ImageEngineCache.getCacheSize
getEngineCacheSize == Len(engines)

\* The wall clock advances by d milliseconds
Tick(d) ==
    /\ now' = now + d
    /\ UNCHANGED <<engines, engBuilt, engCall, seen>>

\* Expiry: a few configurations, the clock moves by 4 min, 5 min or 5 min 1 s
\* Nothing but the engine cache and the clock changes
EngineFrame == UNCHANGED <<lruVars, facVars, urlVars, fnVars>>

EngineNext ==
    \/ \E i \in 1..MaxEngineConfigs :
           engBuilt < MaxEngines /\ getEngineInstance(i) /\ EngineFrame
    \/ \E d \in { 4 * 60 * 1000, 5 * 60 * 1000, 5 * 60 * 1000 + 1000 } :
           now + d <= MaxMinutes * 60 * 1000 /\ Tick(d) /\ EngineFrame
    \/ engBuilt < MaxEngines /\ clearEngineCache /\ EngineFrame

\* Capacity: configurations 1, 2, ... requested in turn one second apart, the
\* first ones requested again at will
EngineFillNext ==
    \/ \E i \in 1..MaxEngineFill :
           i = Cardinality(DOMAIN seen) + 1 /\ getEngineInstance(i) /\ EngineFrame
    \/ \E i \in 1..HotEngineConfigs :
           i \in DOMAIN seen /\ engBuilt <= MaxEngineFill /\ getEngineInstance(i) /\ EngineFrame
    \/ now + 1000 <= MaxFillTicks * 1000 /\ Tick(1000) /\ EngineFrame

(***************************************************************************)
(* LRUCache: claims                                                        *)
(***************************************************************************)

\* The key of the cache whose most recent touch is the oldest.
LeastRecentlyTouched(m) ==
    CHOOSE k \in MapKeys(m) : \A j \in MapKeys(m) : touch[k] <= touch[j]

\* A step that is a set of a key that is absent from a full cache.
SetNewKeyWhenFull ==
    /\ clock' = clock + 1
    /\ lruCall'.op = "set"
    /\ ~MapHas(cache, lruCall'.key)
    /\ Len(cache) = maxSize

\* C1: on a full cache, set(k, v) of an absent key removes exactly one key,
\* the one whose most recent touch (get hit or set) is the oldest, and keeps
\* every other key.
C1_EvictsLeastRecentlyTouched ==
    [][SetNewKeyWhenFull =>
         MapKeys(cache') =
             (MapKeys(cache) \ {LeastRecentlyTouched(cache)}) \cup {lruCall'.key}]_vars

\* C2: the number of stored keys is between 0 and the capacity.
C2_SizeWithinCapacity == 0 <= LRUSize /\ LRUSize <= maxSize



\* The step is the call op(key) of the cache
LruStep(op) == lruCall'.op = op /\ (lruCall' # lruCall \/ clock' # clock)

\* C25: get(k) returns the value of the most recent set(k, .) when k was not
\* evicted or cleared since, and undefined otherwise; never a stale value.
\* Step by step: set(k, v) stores v for k, no other step changes the value of
\* a key or brings a key back, and get(k) returns what is stored for k.
C25_GetReturnsLatestSet ==
    [][/\ LruStep("set") => MapGet(cache', lruCall'.key) = lruCall'.value
       /\ \A k \in LruKeys :
              (MapHas(cache', k) /\ ~(LruStep("set") /\ lruCall'.key = k)) =>
                  MapHas(cache, k) /\ MapGet(cache', k) = MapGet(cache, k)
       /\ LruStep("get") =>
              lruCall'.ret = (IF MapHas(cache, lruCall'.key)
                              THEN MapGet(cache, lruCall'.key) ELSE Undefined)]_vars

\* On a cache of one entry "a" was set, pushed out or set again, and the
\* fourth call get("a") returns the value "y" of its last set
C25_Witness ==
    /\ lruCall.op = "get"
    /\ lruCall.key = <<"a">>
    /\ lruCall.ret = <<"y">>
    /\ maxSize = 1
    /\ clock = 4

\* The keys in the order of the Map, k left out
OrderWithout(m, k) == [ i \in DOMAIN MapDelete(m, k) |-> MapDelete(m, k)[i].key ]

\* C26: set(k, v) on a present key evicts nothing, also on a full cache: the
\* keys and the size stay, only the value and the position of k change.
C26_SetPresentKeyEvictsNothing ==
    [][(LruStep("set") /\ MapHas(cache, lruCall'.key)) =>
           /\ MapKeys(cache') = MapKeys(cache)
           /\ Len(cache') = Len(cache)
           /\ MapGet(cache', lruCall'.key) = lruCall'.value
           /\ OrderWithout(cache', lruCall'.key) = OrderWithout(cache, lruCall'.key)
           /\ \A k \in MapKeys(cache) \ { lruCall'.key } :
                  MapGet(cache', k) = MapGet(cache, k)]_vars

\* A full cache of two entries after the second set of its older key
C26_Witness ==
    /\ lruCall.op = "set"
    /\ maxSize = 2
    /\ Len(cache) = 2
    /\ cache[2].key = lruCall.key
    /\ touch[cache[1].key] = clock - 1
    /\ clock = 3

\* C27: has(k), and get(k) of a key that is not present, leave the keys, the
\* values and the order of the cache as they are.
C27_HasAndMissChangeNothing ==
    [][(\/ LruStep("has")
        \/ LruStep("get") /\ ~MapHas(cache, lruCall'.key)) =>
           cache' = cache /\ maxSize' = maxSize]_vars

\* A get that missed on a cache that holds other keys
C27_Witness ==
    /\ lruCall.op = "get"
    /\ lruCall.ret = Undefined
    /\ ~MapHas(cache, lruCall.key)
    /\ Len(cache) = 2

(***************************************************************************)
(* UrlBuilderFactory: claims                                               *)
(***************************************************************************)

\* A configuration from which a builder can be constructed
Accepted(config) == ~CreateKeyThrows(config) /\ ~ConstructorThrows(config)

C4_DistinctConfigsDistinctBuilders ==
    /\ \A c1, c2 \in FactoryConfigs :
           c1 # c2 =>
               BuildersOf(handed \cup before, c1) \cap BuildersOf(handed \cup before, c2) = {}
    /\ getCacheSize = Cardinality({ c \in FactoryConfigs : BuildersOf(handed, c) # {} })

\* The capacity the specification gives the builder cache
BuilderCacheCapacity == 50

\* C5: the builder cache holds at most 50 builders (a request for a new
\* configuration on a full cache evicts the least recently accessed builder
\* instead of growing the cache).
C5_AtMostFiftyBuilders == getCacheSize <= BuilderCacheCapacity

\* C8: after clearCache() the cache is empty, and the next getInstance of a
\* configuration constructs a builder, which is none of the builders returned
\* for that configuration before the clear.
C8_ClearCacheForgetsBuilders ==
    /\ [](facCall.op = "clearCache" => getCacheSize = 0)
    /\ [](handed \cap before = {})
    /\ [][(facCall.op = "clearCache" /\ facCall'.op = "getInstance"
             /\ facCall'.outcome = "returned")
          => (facCall'.constructed /\ built' = built + 1)]_vars

\* A configuration served before a clearCache has been served again after it.
C8_Witness ==
    /\ facCall.op = "getInstance"
    /\ facCall.outcome = "returned"
    /\ BuildersOf(before, facCall.config) # {}



\* C28: a getInstance(config) that throws leaves the cache as it was: the
\* size and every cached builder are the same, and there is no entry for the
\* configuration that failed.
C28_ThrowLeavesCacheUnchanged ==
    [][(facCall'.op = "getInstance" /\ facCall'.outcome = "threw") =>
           /\ Len(instances') = Len(instances)
           /\ instances' = instances
           /\ \/ CreateKeyThrows(facCall'.config)
              \/ ~MapHas(instances', createKey(facCall'.config))]_vars

\* With a builder cached, the request with the malformed organization name
\* "Acme" threw
C28_Witness ==
    /\ facCall.op = "getInstance"
    /\ facCall.outcome = "threw"
    /\ facCall.config.organizationName = <<"A", "c", "m", "e">>
    /\ getCacheSize >= 1

(***************************************************************************)
(* ImageEngineCache: claims                                                *)
(***************************************************************************)

FiveMinutes == 5 * 60 * 1000

\* A step that is the call getInstance(EngineConfig(i))
EngineRequest(i) ==
    /\ now' = now
    /\ engCall'.op = "getInstance"
    /\ engCall'.config = i

\* C6: a getInstance less than 5 minutes after the previous access of the
\* configuration's entry returns the same engine and sets the entry's last
\* access to the time of the call; one more than 5 minutes after it constructs
\* a new engine, which replaces the entry.
C6_SlidingExpiry ==
    [][\A i \in 1..MaxEngineConfigs :
         (EngineRequest(i) /\ MapHas(engines, engineKey(EngineConfig(i)))) =>
            LET since == now - Seen(i).at
                entry == MapGet(engines', engineKey(EngineConfig(i)))
            IN  /\ since < FiveMinutes =>
                     /\ engCall'.engine = Seen(i).engine
                     /\ ~engCall'.constructed
                     /\ engBuilt' = engBuilt
                     /\ entry.lastAccess = now
                /\ since > FiveMinutes =>
                     /\ engCall'.constructed
                     /\ engCall'.engine # Seen(i).engine
                     /\ entry.engine = engCall'.engine]_vars

\* An engine older than 5 minutes is served from the cache: its entry was
\* accessed in between (t = 0, 4 min, 8 min).
C6_Witness ==
    /\ engCall.op = "getInstance"
    /\ ~engCall.constructed
    /\ Seen(engCall.config).at = now
    /\ now - Seen(engCall.config).born >= 8 * 60 * 1000

\* The configurations whose entry a step removes, and those whose entry it keeps
EvictedConfigs == { j \in DOMAIN seen :
                      /\ MapHas(engines, engineKey(EngineConfig(j)))
                      /\ ~MapHas(engines', engineKey(EngineConfig(j))) }

KeptConfigs == { j \in DOMAIN seen :
                   /\ MapHas(engines, engineKey(EngineConfig(j)))
                   /\ MapHas(engines', engineKey(EngineConfig(j))) }

\* C7: the engine cache never holds more than 10 engines; a request for a
\* new configuration on a cache of 10 first evicts the entry whose last access
\* is the oldest and then inserts the new engine.
C7_EngineCacheBounded ==
    /\ [](getEngineCacheSize <= 10)
    /\ [][\A i \in 1..MaxEngineFill :
            (/\ EngineRequest(i)
             /\ ~MapHas(engines, engineKey(EngineConfig(i)))
             /\ getEngineCacheSize = 10) =>
                /\ Cardinality(EvictedConfigs) = 1
                /\ \A r \in EvictedConfigs, k \in KeptConfigs : seen[r].at <= seen[k].at
                /\ MapHas(engines', engineKey(EngineConfig(i)))
                /\ engCall'.constructed]_vars

\* Eleven configurations were requested, ten engines are cached, and the
\* first configuration, requested again in between, was not the victim.
C7_Witness ==
    /\ getEngineCacheSize = 10
    /\ Cardinality(DOMAIN seen) = 11
    /\ Seen(1).engine = 1
    /\ MapHas(engines, engineKey(EngineConfig(1)))
    /\ ~MapHas(engines, engineKey(EngineConfig(2)))


(***************************************************************************)
(* SnapkitUrlBuilder: claims                                               *)
(***************************************************************************)

\* The last call was given a relative src with a "?" in it and returned
RelativeWithQuery ==
    /\ ~IsCompleteUrl(urlCall.src)
    /\ Includes(urlCall.src, <<"?">>)
    /\ urlCall.result.outcome = "returned"

\* What precedes the first "?" of the src, and what follows it
SrcPath == SubSeq(urlCall.src, 1, IndexOfChar(urlCall.src, "?") - 1)

SrcQuery == SubSeq(urlCall.src, IndexOfChar(urlCall.src, "?") + 1, Len(urlCall.src))

\* C9: for a relative src with a query string and a transform set whose
\* encoding is not empty, the URL buildTransformedUrl returns has exactly one
\* "?", and in it the query of the src is followed by one "&" and the
\* transform parameter.
C9_QueryMerge ==
    (/\ urlCall.op = "buildTransformedUrl"
     /\ RelativeWithQuery
     /\ SrcQuery # <<>>
     /\ buildTransformString(urlCall.transforms) # <<>>) =>
        /\ CountChar(urlCall.result.value, "?") = 1
        /\ Includes(urlCall.result.value, <<"?">> \o SrcQuery \o <<"&", "t", "r", "a", "n", "s", "f", "o", "r", "m", "=">>)

\* C10: for a relative src path?query, buildImageUrl returns the base
\* address, the sanitized path, "?" and the query exactly as it was supplied.
C10_QueryReattached ==
    (/\ urlCall.op = "buildImageUrl"
     /\ RelativeWithQuery) =>
        urlCall.result.value = thisBaseUrl \o sanitizePath(SrcPath) \o <<"?">> \o SrcQuery


\* The last call was buildTransformedUrl with a relative src and a transform
\* set whose encoding is empty
EmptyTransformsCall ==
    /\ urlCall.op = "buildTransformedUrl"
    /\ ~IsCompleteUrl(urlCall.src)
    /\ buildTransformString(urlCall.transforms) = <<>>

\* The last character of a string is c
EndsWithChar(s, c) == s # <<>> /\ s[Len(s)] = c

\* C11: with an empty transform encoding, buildTransformedUrl on a relative
\* src does what buildImageUrl(src) does; the URL it returns has a
\* "transform=" only if the src has one, does not end with "?", and ends with
\* "&" only if that "&" is a character of the src.
C11_EmptyTransformsAddNothing ==
    EmptyTransformsCall =>
        /\ urlCall.result = buildImageUrl(thisBaseUrl, urlCall.src)
        /\ urlCall.result.outcome = "returned" =>
             /\ Includes(urlCall.result.value, <<"t", "r", "a", "n", "s", "f", "o", "r", "m", "=">>) => Includes(urlCall.src, <<"t", "r", "a", "n", "s", "f", "o", "r", "m", "=">>)
             /\ ~EndsWithChar(urlCall.result.value, "?")
             /\ EndsWithChar(urlCall.result.value, "&") => CountChar(urlCall.src, "&") > 0

\* C11 as stated: the URL never ends with "?" or "&"
C11_NeverEndsWithSeparator ==
    (EmptyTransformsCall /\ urlCall.result.outcome = "returned") =>
        /\ urlCall.result = buildImageUrl(thisBaseUrl, urlCall.src)
        /\ ~Includes(urlCall.result.value, <<"t", "r", "a", "n", "s", "f", "o", "r", "m", "=">>)
        /\ ~EndsWithChar(urlCall.result.value, "?")
        /\ ~EndsWithChar(urlCall.result.value, "&")

\* buildTransformedUrl("img.jpg?v=1", {format: 'auto', quality: 0}) returned
\* the URL of the image with its query and nothing more.
C11_Witness ==
    /\ EmptyTransformsCall
    /\ urlCall.transforms # NoTransforms
    /\ urlCall.src = <<"i", "m", "g", ".", "j", "p", "g", "?", "v", "=", "1">>
    /\ urlCall.result = Returned(thisBaseUrl \o <<"/", "i", "m", "g", ".", "j", "p", "g", "?", "v", "=", "1">>)



\* C14: for a relative src without a query and a transform set whose encoding
\* is not empty, buildTransformedUrl returns the base address, the path,
\* "?transform=" and the encoding as buildTransformString writes it, with its
\* ":" and "," as they are.
C14_LiteralTransformParameter ==
    (/\ urlCall.op = "buildTransformedUrl"
     /\ ~IsCompleteUrl(urlCall.src)
     /\ ~Includes(urlCall.src, <<"?">>)
     /\ buildTransformString(urlCall.transforms) # <<>>
     /\ urlCall.result.outcome = "returned") =>
        urlCall.result.value =
            thisBaseUrl \o sanitizePath(urlCall.src) \o <<"?", "t", "r", "a", "n", "s", "f", "o", "r", "m", "=">>
                \o buildTransformString(urlCall.transforms)

\* C15: for a src that starts with http:// or https://, buildTransformedUrl
\* throws SecurityValidationError when isValidUrl(src) is false, and otherwise
\* returns the base address, "/image?url=", the percent-encoded src and, when
\* the encoding is not empty, "&transform=" and the encoding.
C15_UrlProxyBranch ==
    (urlCall.op = "buildTransformedUrl" /\ IsCompleteUrl(urlCall.src)) =>
        LET encoding == buildTransformString(urlCall.transforms)
        IN  IF ~isValidUrl(urlCall.src)
            THEN urlCall.result = Threw("SecurityValidationError")
            ELSE urlCall.result =
                     Returned(thisBaseUrl \o <<"/", "i", "m", "a", "g", "e", "?", "u", "r", "l", "=">> \o FormEncode(urlCall.src)
                                 \o (IF encoding # <<>> THEN <<"&", "t", "r", "a", "n", "s", "f", "o", "r", "m", "=">> \o encoding ELSE <<>>))

(***************************************************************************)
(* buildTransformString: claims                                            *)
(***************************************************************************)

\* The properties of ImageTransforms and the keys of their tokens, in the
\* order of the encoding
FieldKeys ==
    << << "width", <<"w">> >>, << "height", <<"h">> >>, << "fit", <<"f", "i", "t">> >>, << "dpr", <<"d", "p", "r">> >>,
       << "flip", <<"f", "l", "i", "p">> >>, << "flop", <<"f", "l", "o", "p">> >>, << "blur", <<"b", "l", "u", "r">> >>,
       << "grayscale", <<"g", "r", "a", "y", "s", "c", "a", "l", "e">> >>, << "extract", <<"e", "x", "t", "r", "a", "c", "t">> >>,
       << "format", <<"f", "o", "r", "m", "a", "t">> >>, << "quality", <<"q", "u", "a", "l", "i", "t", "y">> >> >>

TokenOrder == [i \in DOMAIN FieldKeys |-> FieldKeys[i][2]]

\* The tokens of an encoding
EncodingTokens(encoding) == IF encoding = <<>> THEN <<>> ELSE SplitChar(encoding, ",")

\* The key of a token: what precedes its ":", or all of it
TokenKey(token) ==
    IF IndexOfChar(token, ":") = 0 THEN token
    ELSE SubSeq(token, 1, IndexOfChar(token, ":") - 1)

\* The position of a key in the order
Rank(key) == CHOOSE i \in DOMAIN TokenOrder : TokenOrder[i] = key

\* The last call encoded the object at hand
Encoded == fnCall.op = "buildTransformString"

KeyOf(name) == FieldKeys[CHOOSE i \in DOMAIN FieldKeys : FieldKeys[i][1] = name][2]

FieldNames == { FieldKeys[i][1] : i \in DOMAIN FieldKeys }

\* The property is undefined, false, 0 or, for format, 'auto'
OmittedValue(transforms, name) ==
    \/ name \notin DOMAIN transforms
    \/ name \in { "width", "height", "dpr", "quality" } /\ transforms[name] = 0
    \/ name \in { "flip", "flop", "grayscale" } /\ transforms[name] = FALSE
    \/ name = "blur" /\ "flag" \in DOMAIN transforms.blur /\ transforms.blur.flag = FALSE
    \/ name = "blur" /\ "amount" \in DOMAIN transforms.blur /\ transforms.blur.amount = 0
    \/ name = "format" /\ transforms.format = <<"a", "u", "t", "o">>


\* C13: the encoding has no token for a property that is undefined, false or
\* 0, no format token when format is 'auto', no token that ends with ":",
\* and the encoding of an object without properties is the empty string.
C13_FalsyAndAutoOmitted ==
    Encoded =>
        LET transforms == PropertiesOf(fnCall.args)
            tokens == EncodingTokens(fnCall.result)
            keys == { TokenKey(tokens[i]) : i \in DOMAIN tokens }
        IN  /\ \A name \in FieldNames : OmittedValue(transforms, name) => KeyOf(name) \notin keys
            /\ \A i \in DOMAIN tokens : tokens[i] # <<>> /\ ~EndsWithChar(tokens[i], ":")
            /\ fnCall.args = <<>> => fnCall.result = <<>>

\* encode({format: 'auto', quality: 0}) is the empty string
C13_Witness ==
    /\ Encoded
    /\ fnCall.args = <<18, 19>>
    /\ fnCall.result = <<>>


(***************************************************************************)
(* The validation of paths: claims                                         *)
(***************************************************************************)

\* What precedes the first "?" of a src
PathPortion(src) == SplitChar(src, "?")[1]

\* The path holds a traversal sequence or a control character, or starts with
\* a pseudo-protocol or with the prefix of a system path
Dangerous(path) ==
    \/ Includes(path, <<".", ".", "/">>)
    \/ Includes(path, <<".", ".", "\\">>)
    \/ \E sequence \in { <<"%", "2", "e", "%", "2", "e">>, <<".", ".", "%", "2", "f">>, <<"%", "2", "5", "2", "e", "%", "2", "5", "2", "e">> } : Includes(ToLowerCase(path), sequence)
    \/ Range(path) \cap ControlChars # {}
    \/ \E protocol \in { <<"j", "a", "v", "a", "s", "c", "r", "i", "p", "t", ":">>, <<"d", "a", "t", "a", ":">>, <<"v", "b", "s", "c", "r", "i", "p", "t", ":">>, <<"f", "i", "l", "e", ":">>, <<"f", "t", "p", ":">> } :
           StartsWith(ToLowerCase(path), protocol)
    \/ \E prefix \in { <<"/", "e", "t", "c", "/">>, <<"/", "u", "s", "r", "/">>, <<"C", ":", "\\">> } : StartsWith(path, prefix)

\* C16: isValidPath is false for a dangerous path, and buildImageUrl and
\* buildTransformedUrl throw SecurityValidationError for a relative src whose
\* path portion is dangerous.
C16_DangerousPathsRejected ==
    /\ (fnCall.op = "isValidPath" /\ Dangerous(fnCall.args)) => fnCall.result = FALSE
    /\ (/\ fnCall.op \in { "buildImageUrl", "buildTransformedUrl" }
        /\ ~IsCompleteUrl(fnCall.args)
        /\ Dangerous(PathPortion(fnCall.args))) =>
            fnCall.result = Threw("SecurityValidationError")

\* buildTransformedUrl threw for a src whose path holds "%2E%2e"
C16_Witness ==
    /\ fnCall.op = "buildTransformedUrl"
    /\ fnCall.args = <<"i", "m", "g", "%", "2", "E", "%", "2", "e">>
    /\ fnCall.result = Threw("SecurityValidationError")


(***************************************************************************)
(* The sanitization of paths: claims                                       *)
(***************************************************************************)

\* The last call sanitized the path at hand
Sanitized == fnCall.op = "sanitizePath"

\* C17: sanitizing a sanitized path changes nothing.
C17_SanitizeIdempotent ==
    Sanitized => sanitizePath(fnCall.result) = fnCall.result

\* C18: a sanitized path begins with "/", has no "//" in it and no segment
\* that is "." or "..".
C18_SanitizedPathShape ==
    Sanitized =>
        /\ StartsWith(fnCall.result, <<"/">>)
        /\ ~Includes(fnCall.result, <<"/", "/">>)
        /\ \A i \in DOMAIN SplitChar(fnCall.result, "/") :
               SplitChar(fnCall.result, "/")[i] \notin { <<".">>, <<".", ".">> }

\* /<script/i matches the string
HasScriptMarker(s) == Includes(ToLowerCase(s), <<"<", "s", "c", "r", "i", "p", "t">>)

\* A word that starts with "on", optional white space and "=" occur in the string
HasInlineHandler(s) == \E i \in DOMAIN s : WordBoundaryBefore(s, i) /\ OnHandlerAt(s, i)

\* C19: the URL buildImageUrl returns for a relative src has no "<script" in
\* it and no inline event handler.
C19_NoScriptNoHandler ==
    (/\ fnCall.op = "buildImageUrl"
     /\ ~IsCompleteUrl(fnCall.args)
     /\ fnCall.result.outcome = "returned") =>
        /\ ~HasScriptMarker(fnCall.result.value)
        /\ ~HasInlineHandler(fnCall.result.value)



\* C29: the path of the URL buildImageUrl returns for a relative src (what
\* follows the base address, up to the first "?") has no segment "..".
C29_NoParentSegmentInUrl ==
    (/\ fnCall.op = "buildImageUrl"
     /\ ~IsCompleteUrl(fnCall.args)
     /\ fnCall.result.outcome = "returned") =>
        LET url == fnCall.result.value
            rest == SubSeq(url, Len(thisBaseUrl) + 1, Len(url))
            path == SplitChar(rest, "?")[1]
        IN  /\ StartsWith(url, thisBaseUrl)
            /\ \A i \in DOMAIN SplitChar(path, "/") : SplitChar(path, "/")[i] # <<".", ".">>

(***************************************************************************)
(* checkAvifSupport: claims                                                *)
(***************************************************************************)

\* The last call was checkAvifSupport of a BrowserInfo with an iOS version
CheckedOnIos == fnCall.op = "checkAvifSupport" /\ HasIosVersion(fnCall.args)

\* C20: checkAvifSupport returns false for iOS 16.0, 16.1, 16.2 and 16.3,
\* whatever the browser and its version, and true for Safari on iOS 16.4 or
\* later.
C20_AvifOnIos ==
    CheckedOnIos =>
        LET major == fnCall.args.iosVersion.major
            minor == fnCall.args.iosVersion.minor
        IN  /\ (major = 16 /\ minor \in 0 .. 3) => fnCall.result = FALSE
            /\ (/\ fnCall.args.name = "safari"
                /\ (major > 16 \/ (major = 16 /\ minor >= 4))) =>
                   fnCall.result = TRUE

\* Chrome 93 on iOS 16.3 is refused although Chrome 93 has AVIF
C20_Witness ==
    /\ CheckedOnIos
    /\ fnCall.args.name = "chrome"
    /\ fnCall.args.version = 93
    /\ fnCall.args.iosVersion = [major |-> 16, minor |-> 3]
    /\ fnCall.result = FALSE


\* C21: Safari 16.4 or later has AVIF on macOS (desktop, no iOS version) as
\* on iOS; Chrome, Firefox and Edge have it from 85, 93 and 91; legacy Edge
\* never has it.  (iOS 16.0 to 16.3, where no browser has it, is left aside.)
C21_AvifByBrowser ==
    (/\ fnCall.op = "checkAvifSupport"
     /\ ~(HasIosVersion(fnCall.args) /\ IosAvifIssue(fnCall.args.iosVersion))) =>
        LET name == fnCall.args.name
            version == fnCall.args.version
        IN  /\ (/\ name = "safari"
                /\ fnCall.args.platform = "desktop"
                /\ ~HasIosVersion(fnCall.args)
                /\ version >= 17) => fnCall.result = TRUE
            /\ (/\ name = "safari"
                /\ HasIosVersion(fnCall.args)
                /\ \/ fnCall.args.iosVersion.major > 16
                   \/ fnCall.args.iosVersion.major = 16 /\ fnCall.args.iosVersion.minor >= 4) =>
                   fnCall.result = TRUE
            /\ name = "chrome" => (fnCall.result = (version >= 85))
            /\ name = "firefox" => (fnCall.result = (version >= 93))
            /\ name = "edge" => (fnCall.result = (version >= 91))
            /\ name = "legacy-edge" => fnCall.result = FALSE


(***************************************************************************)
(* parseBrowserInfo: claims                                                *)
(***************************************************************************)

\* The user agent has the token in it
HasUaToken(token) == Includes(fnCall.args, token)

\* C22: the browser patterns are looked for in the order Edge, legacy Edge,
\* Chrome (Chrome/ or CriOS/), Firefox, Safari: a user agent with Edg/<n> and
\* Chrome/<m> is "edge" with version n, and one with no browser pattern but
\* an iOS platform is "safari".
C22_EdgeBeforeChrome ==
    fnCall.op = "parseBrowserInfo" =>
        LET browser == fnCall.result.name
            safari == \E i \in DOMAIN fnCall.args :
                          /\ MatchAt(fnCall.args, i, <<"V", "e", "r", "s", "i", "o", "n", "/", "1", "6", " ">>)
                          /\ \E j \in (i + 1)..Len(fnCall.args) : MatchAt(fnCall.args, j, <<"S", "a", "f", "a", "r", "i", "/", "6", "0", "5", " ">>)
            ios == HasUaToken(<<"i", "P", "h", "o", "n", "e", " ", "O", "S", " ", "1", "6", "_", "3", " ">>)
        IN  /\ (HasUaToken(<<"E", "d", "g", "/", "1", "2", "0", " ">>) /\ HasUaToken(<<"C", "h", "r", "o", "m", "e", "/", "1", "1", "9", " ">>)) =>
                   browser = "edge" /\ fnCall.result.version = 120
            /\ browser =
                   IF HasUaToken(<<"E", "d", "g", "/", "1", "2", "0", " ">>) THEN "edge"
                   ELSE IF HasUaToken(<<"E", "d", "g", "e", "/", "1", "8", " ">>) THEN "legacy-edge"
                   ELSE IF HasUaToken(<<"C", "h", "r", "o", "m", "e", "/", "1", "1", "9", " ">>) \/ HasUaToken(<<"C", "r", "i", "O", "S", "/", "1", "0", "0", " ">>) THEN "chrome"
                   ELSE IF HasUaToken(<<"F", "i", "r", "e", "f", "o", "x", "/", "9", "3", " ">>) THEN "firefox"
                   ELSE IF safari \/ ios THEN "safari"
                   ELSE "unknown"
            /\ (ios /\ browser = "safari" /\ ~safari) =>
                   fnCall.result.version = 0 /\ fnCall.result.platform = "ios"

\* A Chromium Edge on Windows: the Chrome token comes first in the string
C22_Witness ==
    /\ fnCall.op = "parseBrowserInfo"
    /\ fnCall.args = <<"W", "i", "n", "d", "o", "w", "s", " ", "C", "h", "r", "o", "m", "e", "/", "1", "1", "9", " ", "E", "d", "g", "/", "1", "2", "0", " ">>
    /\ fnCall.result = [ name |-> "edge", version |-> 120, platform |-> "desktop" ]


(***************************************************************************)
(* adjustQualityForConnection: claims                                      *)
(***************************************************************************)

\* The last call adjusted a quality
Adjusted == fnCall.op = "adjustQualityForConnection"

\* The connection type the call is about: the argument, else the one of
\* navigator.connection, else none ("")
TypeOfCall ==
    IF fnCall.args.connectionType # "" THEN fnCall.args.connectionType
    ELSE IF fnCall.args.connection.present THEN fnCall.args.connection.effectiveType
    ELSE ""

C30_QualityNeverRaised ==
    Adjusted => fnCall.result <= fnCall.args.baseQuality


(***************************************************************************)
(* generateResponsiveWidths: claims                                        *)
(***************************************************************************)

\* The arrays with the same elements, each as often
PermutationsOf(seq) ==
    { [ i \in DOMAIN seq |-> seq[f[i]] ] :
          f \in { g \in [DOMAIN seq -> DOMAIN seq] : \A i, j \in DOMAIN seq : g[i] = g[j] => i = j } }

LRUIdle ==
    /\ maxSize = 1
    /\ cache = <<>>
    /\ lruCall = LruCallRec("new", Undefined, Undefined, Undefined)
    /\ touch = [k \in LruKeys |-> 0]
    /\ clock = 0

\* A builder that is not in use
UrlIdle ==
    NewBuilder(CdnConfig(<<"s", "n", "a", "p", "k", "i", "t">>, <<"a", "c", "m", "e">>, Undefined), <<>>, NoTransforms)

\* No pure function under test
FnIdle == fnCall = FnCallRec("none", <<>>, <<>>)

\* The caches and the builder are not in use
AllIdle == LRUIdle /\ FactoryInit /\ EngineInit /\ UrlIdle

InitLRU == LRUInit /\ FactoryInit /\ EngineInit /\ UrlIdle /\ FnIdle

InitFactory == FactoryInit /\ LRUIdle /\ EngineInit /\ UrlIdle /\ FnIdle

InitEngine == EngineInit /\ LRUIdle /\ FactoryInit /\ UrlIdle /\ FnIdle

InitUrl == UrlInit /\ LRUIdle /\ FactoryInit /\ EngineInit /\ FnIdle

SpecLRU == InitLRU /\ [][LRUNext]_vars

SpecFactory == InitFactory /\ [][FactoryNext]_vars

SpecFactoryFill == InitFactory /\ [][FillNext]_vars

SpecEngine == InitEngine /\ [][EngineNext]_vars

SpecEngineFill == InitEngine /\ [][EngineFillNext]_vars

SpecUrl == InitUrl /\ [][UrlNext]_vars

InitEncode == EncodeInit /\ AllIdle

SpecEncode == InitEncode /\ [][EncodeNext]_vars

InitValidate == ValidateInit /\ AllIdle

SpecValidate == InitValidate /\ [][ValidateNext]_vars

InitSanitize == SanitizeInit /\ AllIdle

SpecSanitize == InitSanitize /\ [][SanitizeNext]_vars

InitAvif == AvifInit /\ AllIdle

SpecAvif == InitAvif /\ [][AvifNext]_vars

InitParse == ParseInit /\ AllIdle

SpecParse == InitParse /\ [][ParseNext]_vars

InitQuality == QualityInit /\ AllIdle

SpecQuality == InitQuality /\ [][QualityNext]_vars

InitWidths == WidthsInit /\ AllIdle

SpecWidths == InitWidths /\ [][WidthsNext]_vars

====
